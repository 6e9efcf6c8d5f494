------------------------------- MODULE Scopes -------------------------------
(***************************************************************************)
(* What a scoped API token may ask for (tokens.py:160-182), beside the     *)
(* store of Tokens.  A scope and a path are strings that are compared as   *)
(* strings, while what they mean is a sequence of parts.  Strings are      *)
(* sequences over an alphabet that is just large enough for what the code  *)
(* tells apart: two words, of which one is an API prefix, the slash and    *)
(* the blank.  Words that follow each other are one longer word.           *)
(*                                                                         *)
(* A token keeps the scope that create() normalized, in its file too.      *)
(* Scopes do not meet, so that of one token is followed.                   *)
(***************************************************************************)
EXTENDS Tokens, Sequences, SequencesExt

CONSTANTS
  Followed,    \* the token whose scope is followed
  MaxScope,    \* bound on the length of the scopes asked for
  MaxPath      \* bound on the length of the paths asked for

ASSUME StringsAssumption == Followed \in Tokens /\ {MaxScope, MaxPath} \subseteq Nat

VARIABLE scope     \* of the token followed, <<>> before it is created

Slash == "/"
Blank == " "
Words == {"projects", "app"}
String(n) == SeqOf(Words \cup {Slash, Blank}, n)

\* One of API_PREFIXES; no other word of the alphabet is one.
Prefix == <<"projects">>

-----------------------------------------------------------------------------
\* str.strip(c)
Strip(s, c) ==
  LET kept == {i \in DOMAIN s : s[i] # c}
  IN  IF kept = {} THEN <<>>
      ELSE SubSeq(s, CHOOSE i \in kept : \A j \in kept : i <= j,
                     CHOOSE i \in kept : \A j \in kept : i >= j)

\* Where the parts of s begin and end, and which of those has n others before it.
Cuts(s) == {0, Len(s) + 1} \cup {i \in DOMAIN s : s[i] = Slash}
Cut(s, n) == CHOOSE c \in Cuts(s) : Cardinality({d \in Cuts(s) : d < c}) = n

\* s.split("/")
Split(s) ==
  [k \in 1..Cardinality(Cuts(s)) - 1 |-> SubSeq(s, Cut(s, k - 1) + 1, Cut(s, k) - 1)]

IsName(part) == part # <<>> /\ \A i \in DOMAIN part : part[i] \in Words

\* A bare name is a project; anything else starts with an API prefix.  <<>> is a refusal.
NormalizeScope(s) ==
  LET bare == Strip(Strip(s, Blank), Slash)
      parts == Split(bare)
  IN  CASE Len(parts) = 1 /\ IsName(bare) /\ bare # Prefix -> Prefix \o <<Slash>> \o bare
        [] parts[1] = Prefix /\ \A i \in DOMAIN parts : parts[i] # <<>> -> bare
        [] OTHER -> <<>>

\* Mutant of ScopeAllows: the slash after the scope is not asked for.
ScopeAllowsPrefix(s, p) ==
  LET n == NormalizeScope(s)
      q == Strip(p, Slash)
  IN  n # <<>> /\ IsPrefix(n, q)

ScopeAllows(s, p) ==
  LET n == NormalizeScope(s)
      q == Strip(p, Slash)
  IN  n # <<>> /\ (q = n \/ IsPrefix(n \o <<Slash>>, q))

-----------------------------------------------------------------------------
(* The store, with the scope of the token followed *)

Scopes == {NormalizeScope(s) : s \in String(MaxScope)} \ {<<>>}
Paths == String(MaxPath)

ScopedInit == Init /\ scope = <<>>

\* create() refuses what normalize_scope() refuses, and stores what it returns.
Scoped ==
  /\ Next
  /\ IF Followed \in issued' \ issued THEN scope' \in Scopes ELSE UNCHANGED scope

ScopedSpec == ScopedInit /\ [][Scoped]_<<vars, scope>> /\ Fairness

-----------------------------------------------------------------------------
(* Properties: what create() stores, and what authenticate() then lets through *)

\* A path is at or below a scope if the parts of the scope are in front of its parts.
IsBelow(p, s) == IsPrefix(Split(s), Split(Strip(p, Slash)))

\* Scopes that let a path through which is not below them, and that refuse one which is.
Strays == {s \in Scopes : \E p \in Paths : ScopeAllows(s, p) /\ ~IsBelow(p, s)}
Refusing == {s \in Scopes : \E p \in Paths : IsBelow(p, s) /\ ~ScopeAllows(s, p)}

\* The comparison of strings is one of parts: what a token in the index is let through
\* to has the parts of its scope in front, so that the token of one project never
\* reaches another whose name starts the same, and nothing else is refused
\* (tokens.py:177-182).  Not so for a scope that ends in a blank, which create() makes of
\* 'projects/ /' and which each comparison strips once more, of its blank and of the
\* slash before it (tokens.py:163, 174, 178-179).
AllowedPartByPart ==
  Followed \in index /\ Last(scope) # Blank => scope \notin Strays \cup Refusing
=============================================================================
