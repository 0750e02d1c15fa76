------------------------------ MODULE Patterns -------------------------------
(***************************************************************************)
(* Path patterns, command patterns and the preflight built on them.  Paths *)
(* and patterns are sequences of symbols: letters, "/", and in patterns    *)
(* "*" (within a component), "**" (anything) and "?" (one letter); "[" is  *)
(* a letter that ends the literal part of a pattern all the same.  An      *)
(* intended write is taken as filepath.Clean leaves it.                    *)
(***************************************************************************)
EXTENDS Integers, Sequences, FiniteSets, SequencesExt

Wild == {"*", "**", "?", "["}
IsLiteral(p) == \A i \in 1..Len(p) : p[i] \notin Wild

\* Both kinds are compiled to a regular expression.  Where its next symbol can
\* end in n, if what precedes it can end at the positions `at`; "*" and "?" do
\* not cross what separates components.
Advance(at, s, n, separators) ==
    CASE s = "**" -> {j \in 0..Len(n) : \E i \in at : i <= j}
      [] s = "*" -> {j \in 0..Len(n) : \E i \in at : i <= j /\ \A k \in i + 1..j : n[k] \notin separators}
      [] s = "?" -> {j \in 1..Len(n) : j - 1 \in at /\ n[j] \notin separators}
      [] OTHER -> {j \in 1..Len(n) : j - 1 \in at /\ n[j] = s}

Reach(p, n, separators) ==
    LET at[k \in 0..Len(p)] == IF k = 0 THEN {0} ELSE Advance(at[k - 1], p[k], n, separators)
    IN at

glob(p, n) == Len(n) \in Reach(p, n, {"/"})[Len(p)]

MatchesAny(ps, n) == \E p \in ps : glob(p, n)

\* Mutant: a star of a command pattern stops at a separator.
commandMatches_Path(p, c) == glob(p, c)

\* To a command pattern nothing separates.
commandMatches(p, c) == Len(c) \in Reach(p, c, {})[Len(p)]

FirstWild(p) == CHOOSE i \in 1..Len(p) : p[i] \in Wild /\ \A j \in 1..i - 1 : p[j] \notin Wild
DropSlash(p) == IF p # <<>> /\ Last(p) = "/" THEN Front(p) ELSE p
staticPrefix(p) == IF IsLiteral(p) THEN p ELSE DropSlash(SubSeq(p, 1, FirstWild(p) - 1))

EndsAll(p) == Len(p) >= 2 /\ SubSeq(p, Len(p) - 1, Len(p)) = <<"/", "**">>

\* Mutant: the prefix is compared without its separator.
patternWithin_NoSlash(p, allowed) ==
    \E c \in allowed : c = <<"**">> \/ c = p \/ (EndsAll(c) /\ IsPrefix(SubSeq(c, 1, Len(c) - 2), staticPrefix(p)))

patternWithin(p, allowed) ==
    \E c \in allowed :
      \/ c = <<"**">> \/ c = p
      \/ IsLiteral(p) /\ glob(c, p)
      \/ LET ap == SubSeq(c, 1, Len(c) - 2)
         IN EndsAll(c) /\ (staticPrefix(p) = ap \/ IsPrefix(Append(DropSlash(ap), "/"), staticPrefix(p)))

----------------------------------------------------------------------------
(* Preflight.  A contract: intended and allowed writes, whether it allows  *)
(* a destructive command, the size of its envelope, its mode, its waivers. *)

Broad(c) == \E p \in c.writes : staticPrefix(p) = <<>>

Blocked(c) == c.destructive \/ \E p \in c.writes : ~patternWithin(p, c.allowed)

Preflight(c) ==
    IF Blocked(c) THEN "BLOCKED"
    ELSE IF Broad(c) \/ c.size = "large" THEN "HIGH"
    ELSE IF c.mode = "batch_worker" \/ c.size = "medium" THEN "MED"
    ELSE "LOW"

\* Mutant: a waiver lets a BLOCKED contract through too.
PreflightRefuses_Waived(c) == ~c.scouted /\ ~c.approved /\ Preflight(c) \in {"BLOCKED", "HIGH"}

PreflightRefuses(c) ==
    \/ Preflight(c) = "BLOCKED"
    \/ Preflight(c) = "HIGH" /\ ~c.scouted /\ ~c.approved

\* The cleanup doctrine: modes that write need a cleanup block or a lint.
CleanupDoctrineApplies(mode) == mode \in {"surgeon", "batch_worker", "repair"}
CleanupDoctrineIssue(c) == CleanupDoctrineApplies(c.mode) /\ ~c.cleanup /\ ~c.lint

----------------------------------------------------------------------------
(* What they promise.                                                      *)

\* Relative, and without an empty component, as filepath.Clean leaves it.
Tidy(p) == \A i \in 1..Len(p) : p[i] = "/" => i \notin {1, Len(p)} /\ p[i - 1] # "/"

\* A pattern cut in the middle of a component, or one that names the directory
\* itself, is compared by its letters only.
CutsAtSlash(p) == ~IsLiteral(p) => FirstWild(p) = 1 \/ p[FirstWild(p) - 1] = "/"
NamesRoot(p, allowed) == IsLiteral(p) /\ Append(Append(p, "/"), "**") \in allowed

\* An intended write that is within the allowed ones writes nothing outside them.
WithinSound(p, allowed, names) ==
    patternWithin(p, allowed) /\ CutsAtSlash(p) /\ ~NamesRoot(p, allowed) =>
      \A n \in names : glob(p, n) => MatchesAny(allowed, n)

\* "*" stays in its component, "**" does not, and a command's "*" is the latter.
Slashes(s) == Cardinality({i \in 1..Len(s) : s[i] = "/"})
GlobSound(p, n) ==
    /\ IsLiteral(p) => (glob(p, n) <=> p = n)
    /\ glob(p, n) /\ "**" \notin ToSet(p) => Slashes(p) = Slashes(n)
    /\ glob(p, n) => commandMatches(p, n)
    /\ \A i \in 1..Len(n) + 1 : p = SubSeq(n, 1, i - 1) \o <<"*">> => commandMatches(p, n)

\* No waiver lifts a block; a large or boundless envelope runs only with one.
PreflightSound(c, names) ==
    ~PreflightRefuses(c) =>
      /\ ~c.destructive
      /\ c.size = "large" \/ <<"**">> \in c.writes => c.scouted \/ c.approved
      /\ \A p \in c.writes : WithinSound(p, c.allowed, names)
      /\ \A n \in names : (\E p \in c.writes : CutsAtSlash(p) /\ ~NamesRoot(p, c.allowed) /\ glob(p, n)) => MatchesAny(c.allowed, n)
=============================================================================
