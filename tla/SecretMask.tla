----------------------------- MODULE SecretMask -----------------------------
(***************************************************************************)
(* How secrets survive a round trip through the dashboard: a browser gets  *)
(* the configuration with its literal secrets masked, the admin edits it,  *)
(* and unmask_secrets puts the stored secrets back (config_store.py).      *)
(*                                                                         *)
(* One group of keys: the client keys, which have no names and are told    *)
(* apart by position, or the keys of a provider or the admin keys, which   *)
(* have names.  A mask shows the last characters of a long secret, none of *)
(* a short one, so different secrets may have the same mask; a reference   *)
(* to the environment is shown as it is.                                   *)
(***************************************************************************)
EXTENDS Naturals, FiniteSets, SequencesExt

CONSTANTS
  Literal,     \* secrets that are written out
  Reference,   \* ${VAR}
  Shown,       \* what masks look like
  MaskOf,      \* literal -> its mask
  KeyName,     \* names of keys
  MaxKeys      \* bound: keys of the group

Secret == Literal \cup Reference

ASSUME MaskConstants ==
  /\ MaskOf \in [Literal -> Shown]
  /\ Shown \cap Secret = {} /\ Literal \cap Reference = {}
  /\ MaxKeys \in Nat

Mask(value) == IF value \in Literal THEN MaskOf[value] ELSE value

VARIABLES
  named,     \* whether the keys of the group have names
  stored,    \* the keys in the file: sequence of [name, value]
  sent,      \* the group as the admin is going to send it back
  meant,     \* the group the admin means by it
  result     \* the group unmask_secrets makes of it, or a refusal

maskVars == <<named, stored, sent, meant, result>>

NotSent == [status |-> "none", keys |-> <<>>]
Refused == [status |-> "unknown_mask", keys |-> <<>>]
Saved(keys) == [status |-> "saved", keys |-> keys]

Names(keys) == {keys[i].name : i \in DOMAIN keys}
Values(keys) == {keys[i].value : i \in DOMAIN keys}
Masked(keys) == [i \in DOMAIN keys |-> [keys[i] EXCEPT !.value = Mask(@)]]

(* A file without repeated names or secrets; the browser has loaded it.    *)
(* The code makes sure of it for the keys of a provider only: of admin     *)
(* keys that share a name unmask_secrets knows just the last.              *)
MaskInit ==
  /\ named \in BOOLEAN
  /\ stored \in SeqOf([name : KeyName, value : Secret], MaxKeys)
  /\ Cardinality(Names(stored)) = Len(stored)
  /\ Cardinality(Values(stored)) = Len(stored)
  /\ sent = Masked(stored)
  /\ meant = stored
  /\ result = NotSent

-----------------------------------------------------------------------------
(* What the admin does to the group before sending it.                     *)
RemoveKey(i) ==
  /\ sent' = RemoveAt(sent, i) /\ meant' = RemoveAt(meant, i)
  /\ UNCHANGED <<named, stored, result>>

AddKey(name, value) ==
  /\ Len(sent) < MaxKeys
  /\ name \notin Names(sent) /\ value \notin Values(meant)
  /\ sent' = Append(sent, [name |-> name, value |-> value])
  /\ meant' = Append(meant, [name |-> name, value |-> value])
  /\ UNCHANGED <<named, stored, result>>

RenameKey(i, name) ==
  /\ named
  /\ name \notin Names(sent)
  /\ sent' = [sent EXCEPT ![i].name = name]
  /\ meant' = [meant EXCEPT ![i].name = name]
  /\ UNCHANGED <<named, stored, result>>

-----------------------------------------------------------------------------
(* The stored secrets of the same name, or of the same position when the   *)
(* number of keys has not changed.                                         *)
SameIdentityMutant(i) ==
  IF named
  THEN {stored[j].value : j \in {k \in DOMAIN stored : stored[k].name = sent[i].name}}
  ELSE {stored[j].value : j \in {k \in DOMAIN stored : k = i}}

SameIdentity(i) ==
  IF named
  THEN {stored[j].value : j \in {k \in DOMAIN stored : stored[k].name = sent[i].name}}
  ELSE {stored[j].value : j \in {k \in DOMAIN stored :
                                   k = i /\ Len(sent) = Len(stored)}}

Group == Values(stored)

(* _resolve_mask: the candidates of one masked value; none or several mean *)
(* that the save is refused.                                               *)
ResolvedMutant(i) ==
  LET same == SameIdentity(i) \cap Literal
  IN  IF same # {} THEN same
      ELSE {v \in Group \cap Literal : Mask(v) = sent[i].value}

Resolved(i) ==
  LET same == {v \in SameIdentity(i) \cap Literal : Mask(v) = sent[i].value}
  IN  IF same # {} THEN same
      ELSE {v \in Group \cap Literal : Mask(v) = sent[i].value}

Candidates(i) == IF sent[i].value \in Shown THEN Resolved(i) ELSE {sent[i].value}

UnmaskSecretsMutant ==
  IF \A i \in DOMAIN sent : Candidates(i) # {}
  THEN Saved([i \in DOMAIN sent |->
         [name |-> sent[i].name, value |-> CHOOSE v \in Candidates(i) : TRUE]])
  ELSE Refused

UnmaskSecrets ==
  IF \A i \in DOMAIN sent : Cardinality(Candidates(i)) = 1
  THEN Saved([i \in DOMAIN sent |->
         [name |-> sent[i].name, value |-> CHOOSE v \in Candidates(i) : TRUE]])
  ELSE Refused

Send ==
  /\ result' = UnmaskSecrets
  /\ UNCHANGED <<named, stored, sent, meant>>

MaskNext ==
  /\ result = NotSent
  /\ \/ \E i \in DOMAIN sent : RemoveKey(i)
     \/ \E name \in KeyName, value \in Secret : AddKey(name, value)
     \/ \E i \in DOMAIN sent, name \in KeyName : RenameKey(i, name)
     \/ Send

MaskSpec == MaskInit /\ [][MaskNext]_maskVars

-----------------------------------------------------------------------------
AsMeant == result \in {NotSent, Saved(meant)}

(* When the stored secrets have different masks every edit means what the  *)
(* admin sees: the secrets come back, whatever was removed, added or       *)
(* renamed, and nothing is refused.                                        *)
DistinctMasksExact ==
  (\A v, w \in Group : Mask(v) = Mask(w) => v = w) => AsMeant

(* With equal masks an edit that keeps what a secret is identified by - no *)
(* name moves from one key to another, no key comes for one that goes - is *)
(* taken as meant or refused, never taken for another secret.              *)
IdentityMoved ==
  \E i \in DOMAIN meant, j \in DOMAIN stored :
    /\ meant[i].value # stored[j].value
    /\ sent[i].value \in Shown
    /\ IF named THEN meant[i].name = stored[j].name
       ELSE i = j /\ Len(sent) = Len(stored)

NeverAnotherSecret == ~IdentityMoved => AsMeant \/ result = Refused
=============================================================================
