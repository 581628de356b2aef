-------------------------------- MODULE Names --------------------------------
(***************************************************************************)
(* Identifiers, and dotted names as the sequences of their components.     *)
(* strings.EqualFold and comparisons through strings.ToUpper are equality  *)
(* of the folded form.                                                     *)
(***************************************************************************)
EXTENDS Sequences, Naturals

CONSTANTS Ident,  \* the identifiers (and statement classes) of the instance
          Lower   \* their folded forms

ASSUME LowerAssumption ==
    /\ Lower \in [Ident -> Ident]
    /\ \A i \in Ident : Lower[Lower[i]] = Lower[i]

EqualFold(a, b) == Lower[a] = Lower[b]

EqualFoldName(s, t) ==
    /\ Len(s) = Len(t)
    /\ \A i \in 1 .. Len(s) : EqualFold(s[i], t[i])

lastComponent(name) == name[Len(name)]
=============================================================================
