------------------------- MODULE ConfigStoreProofs -------------------------
(***************************************************************************)
(* Saves, restores, reloads, hand edits, crashes and restarts in any       *)
(* interleaving, for any number of admins and any configurations: no       *)
(* update is lost, the file stays one the gateway accepts, the gateway     *)
(* runs what the file says, and what a save overwrites is in a backup; and *)
(* secrets survive a round trip through the dashboard.                     *)
(***************************************************************************)
EXTENDS ConfigStore, SecretMask, FiniteSetTheorems, SequenceTheorems,
        WellFoundedInduction, TLAPS

-----------------------------------------------------------------------------
(* SecretMask: what unmask_secrets makes of a group of keys.               *)

SentKey == [name : KeyName, value : Secret \cup Shown]
MeantKey == [name : KeyName, value : Secret]

(* A key the browser holds is a key the admin means: it has its name, and  *)
(* its secret, or the mask of it if the secret is one of the stored ones.  *)
StandsFor(key, m) ==
  /\ key \in SentKey
  /\ m \in MeantKey
  /\ key.name = m.name
  /\ \/ key.value = m.value
     \/ key.value = Mask(m.value) /\ m.value \in Group

MaskInv ==
  /\ stored \in Seq(MeantKey)
  /\ sent \in Seq(SentKey)
  /\ meant \in Seq(MeantKey)
  /\ Len(sent) = Len(meant)
  /\ \A i \in DOMAIN sent : StandsFor(sent[i], meant[i])
  /\ result \in {NotSent, UnmaskSecrets}

LEMMA TableIsSeq ==
  ASSUME NEW S, NEW n \in Nat, NEW f \in [1..n -> S]
  PROVE  f \in Seq(S) /\ Len(f) = n
<1>1. f \in Seq(S)
  BY ONLY n \in Nat, f \in [1..n -> S], SeqDef
<1> QED
  BY <1>1

LEMMA MaskInitOK == MaskInit => MaskInv
<1> SUFFICES ASSUME MaskInit PROVE MaskInv
  OBVIOUS
<1> USE MaskConstants
<1>1. PICK n \in Nat : stored \in [1..n -> MeantKey]
  BY DEF MaskInit, SeqOf, MeantKey
<1>2. stored \in Seq(MeantKey) /\ Len(stored) = n
  BY <1>1, TableIsSeq
<1>3. \A v \in Secret : Mask(v) \in Secret \cup Shown
  BY DEF Mask, Secret
<1>4. /\ sent = [i \in 1..n |-> [stored[i] EXCEPT !.value = Mask(@)]]
      /\ meant = stored /\ result = NotSent
  BY <1>1, <1>2 DEF MaskInit, Masked
<1>5. \A i \in 1..n : /\ stored[i] \in MeantKey
                      /\ stored[i].value \in Group
  BY <1>1, <1>2 DEF Group, Values
<1>6. \A i \in 1..n : StandsFor(sent[i], meant[i])
  BY <1>3, <1>4, <1>5 DEF StandsFor, SentKey, MeantKey
<1>7. sent \in Seq(SentKey) /\ Len(sent) = n
  <2>1. \A i \in 1..n : sent[i] \in SentKey
    BY <1>6 DEF StandsFor, SentKey, MeantKey
  <2>2. sent \in [1..n -> SentKey]
    BY <2>1, <1>4
  <2> QED
    BY <2>2, TableIsSeq
<1> QED
  BY <1>2, <1>4, <1>6, <1>7 DEF MaskInv

(* Removing a key leaves every other one where it was or one before it.    *)
LEMMA RemovedAt ==
  ASSUME NEW S, NEW s \in Seq(S), NEW k \in 1..Len(s)
  PROVE  /\ RemoveAt(s, k) \in Seq(S)
         /\ Len(RemoveAt(s, k)) = Len(s) - 1
         /\ \A i \in 1..(Len(s) - 1) :
              RemoveAt(s, k)[i] = IF i < k THEN s[i] ELSE s[i + 1]
<1> DEFINE n == Len(s)
           a == SubSeq(s, 1, k - 1)
           b == SubSeq(s, k + 1, n)
           r == a \o b
<1>1. n \in Nat /\ k \in 1..n /\ \A i \in 1..n : s[i] \in S
  OBVIOUS
<1>2. RemoveAt(s, k) = r
  BY DEF RemoveAt
<1>3. /\ a \in Seq(S) /\ Len(a) = k - 1
      /\ \A i \in 1..(k - 1) : a[i] = s[i]
  BY <1>1, SubSeqProperties
<1>4. /\ b \in Seq(S) /\ Len(b) = n - k
      /\ \A i \in 1..(n - k) : b[i] = s[k + i]
  <2>1. /\ b \in Seq(S) /\ Len(b) = IF k + 1 <= n THEN n - (k + 1) + 1 ELSE 0
        /\ \A i \in 1..(n - (k + 1) + 1) : b[i] = s[(k + 1) + i - 1]
    BY <1>1, SubSeqProperties
  <2> HIDE DEF b, n
  <2>2. n - (k + 1) + 1 = n - k /\ (~(k + 1 <= n) => n - k = 0)
    BY <1>1
  <2>3. \A i \in 1..(n - k) : (k + 1) + i - 1 = k + i
    BY <1>1
  <2> QED
    BY <2>1, <2>2, <2>3
<1>5. /\ r \in Seq(S) /\ Len(r) = n - 1
      /\ \A i \in 1..(n - 1) : r[i] = IF i <= k - 1 THEN a[i] ELSE b[i - (k - 1)]
  <2> HIDE DEF a, b, n
  <2>1. /\ a \o b \in Seq(S) /\ Len(a \o b) = Len(a) + Len(b)
        /\ \A i \in 1..Len(a) + Len(b) :
             (a \o b)[i] = IF i <= Len(a) THEN a[i] ELSE b[i - Len(a)]
    BY <1>3, <1>4, ConcatProperties
  <2>2. Len(a) + Len(b) = n - 1
    BY <1>1, <1>3, <1>4
  <2> QED
    BY <2>1, <2>2, <1>3
<1> HIDE DEF a, b, r, n
<1>6. ASSUME NEW i \in 1..(n - 1)
      PROVE  r[i] = IF i < k THEN s[i] ELSE s[i + 1]
  <2>1. CASE i < k
    <3>1. i \in 1..(k - 1) /\ i <= k - 1
      BY <1>1, <2>1
    <3> QED
      BY <1>3, <1>5, <2>1, <3>1
  <2>2. CASE ~(i < k)
    <3>1. i - (k - 1) \in 1..(n - k) /\ ~(i <= k - 1) /\ k + (i - (k - 1)) = i + 1
      BY <1>1, <2>2
    <3>2. b[i - (k - 1)] = s[i + 1]
      BY <1>4, <3>1
    <3> QED
      BY <1>5, <2>2, <3>1, <3>2
  <2> QED
    BY <2>1, <2>2
<1> QED
  BY <1>2, <1>5, <1>6 DEF n

(* A new name, the same on both sides, changes nothing else.               *)
LEMMA RenamedStandsFor ==
  ASSUME NEW key, NEW m, StandsFor(key, m), NEW name \in KeyName
  PROVE  StandsFor([key EXCEPT !.name = name], [m EXCEPT !.name = name])
BY DEF StandsFor, SentKey, MeantKey

LEMMA MaskNextOK == MaskInv /\ [MaskNext]_maskVars => MaskInv'
<1> SUFFICES ASSUME MaskInv, [MaskNext]_maskVars PROVE MaskInv'
  OBVIOUS
<1> USE MaskConstants
<1>1. CASE UNCHANGED maskVars
  <2>1. UnmaskSecrets' = UnmaskSecrets /\ Group' = Group
    BY <1>1 DEF maskVars, UnmaskSecrets, Candidates, Resolved, SameIdentity, Group
  <2> QED
    BY <1>1, <2>1 DEF maskVars, MaskInv, StandsFor
<1>2. ASSUME NEW i \in DOMAIN sent, RemoveKey(i), result = NotSent
      PROVE  MaskInv'
  <2> DEFINE before(k) == IF k < i THEN k ELSE k + 1
  <2>0. stored' = stored /\ result' = result /\ Group' = Group
    BY <1>2 DEF RemoveKey, Group
  <2>1. /\ sent' \in Seq(SentKey)
        /\ Len(sent') = Len(sent) - 1
        /\ \A k \in 1..(Len(sent) - 1) : sent'[k] = sent[before(k)]
    <3>1. sent \in Seq(SentKey) /\ i \in 1..Len(sent) /\ sent' = RemoveAt(sent, i)
      BY <1>2 DEF RemoveKey, MaskInv
    <3> QED
      BY <3>1, RemovedAt
  <2>3. /\ meant' \in Seq(MeantKey)
        /\ Len(meant') = Len(meant) - 1
        /\ \A k \in 1..(Len(meant) - 1) : meant'[k] = meant[before(k)]
    <3>1. meant \in Seq(MeantKey) /\ i \in 1..Len(meant) /\ meant' = RemoveAt(meant, i)
      BY <1>2 DEF RemoveKey, MaskInv
    <3> QED
      BY <3>1, RemovedAt
  <2>4. \A k \in 1..(Len(sent) - 1) : before(k) \in DOMAIN sent
    BY DEF MaskInv
  <2> HIDE DEF before
  <2>5. DOMAIN sent' = 1..(Len(sent) - 1) /\ Len(meant) = Len(sent)
    BY <2>1 DEF MaskInv
  <2>6. \A k \in DOMAIN sent' : StandsFor(sent'[k], meant'[k])
    BY <2>1, <2>3, <2>4, <2>5 DEF MaskInv
  <2>7. \A k \in DOMAIN sent' : StandsFor(sent[k], meant[k])'
    BY <2>0, <2>6 DEF StandsFor, SentKey, MeantKey
  <2> QED
    BY <2>0, <2>1, <2>3, <2>5, <2>7, <1>2 DEF MaskInv
<1>3. ASSUME NEW name \in KeyName, NEW value \in Secret, AddKey(name, value),
             result = NotSent
      PROVE  MaskInv'
  <2> DEFINE key == [name |-> name, value |-> value]
  <2>0. stored' = stored /\ result' = result /\ Group' = Group
    BY <1>3 DEF AddKey, Group
  <2>1. sent' = Append(sent, key) /\ meant' = Append(meant, key)
    BY <1>3 DEF AddKey
  <2>2. StandsFor(key, key)
    BY DEF StandsFor, SentKey, MeantKey
  <2>3. /\ sent' \in Seq(SentKey)
        /\ meant' \in Seq(MeantKey)
        /\ Len(sent') = Len(meant')
    <3>1. key \in SentKey /\ key \in MeantKey
      BY <2>2 DEF StandsFor
    <3> HIDE DEF key
    <3> QED
      BY <2>1, <3>1 DEF MaskInv
  <2>4. \A k \in DOMAIN sent' : StandsFor(sent'[k], meant'[k])
    BY <2>1, <2>2 DEF MaskInv
  <2>5. \A k \in DOMAIN sent' : StandsFor(sent[k], meant[k])'
    BY <2>0, <2>4 DEF StandsFor, SentKey, MeantKey
  <2> QED
    BY <2>0, <2>3, <2>5, <1>3 DEF MaskInv
<1>4. ASSUME NEW i \in DOMAIN sent, NEW name \in KeyName, RenameKey(i, name),
             result = NotSent
      PROVE  MaskInv'
  <2>0. stored' = stored /\ result' = result /\ Group' = Group
    BY <1>4 DEF RenameKey, Group
  <2>1. /\ sent' = [sent EXCEPT ![i].name = name]
        /\ meant' = [meant EXCEPT ![i].name = name]
    BY <1>4 DEF RenameKey
  <2>2. \A k \in DOMAIN sent : StandsFor(sent[k], meant[k])
    BY DEF MaskInv
  <2>3. DOMAIN sent = DOMAIN meant /\ DOMAIN sent = 1..Len(sent)
    BY DEF MaskInv
  <2>4. \A k \in DOMAIN sent :
          /\ sent'[k] = IF k = i THEN [sent[k] EXCEPT !.name = name] ELSE sent[k]
          /\ meant'[k] = IF k = i THEN [meant[k] EXCEPT !.name = name] ELSE meant[k]
    BY <2>1, <2>3 DEF MaskInv
  <2>5. \A k \in DOMAIN sent : StandsFor(sent'[k], meant'[k])
    <3>1. ASSUME NEW k \in DOMAIN sent PROVE StandsFor(sent'[k], meant'[k])
      <4>1. CASE k = i
        <5> DEFINE key == sent[k]
                   m == meant[k]
        <5>1. sent'[k] = [key EXCEPT !.name = name] /\ meant'[k] = [m EXCEPT !.name = name]
          BY <2>4, <4>1
        <5>2. StandsFor(key, m)
          BY <2>2
        <5> HIDE DEF key, m
        <5>3. StandsFor([key EXCEPT !.name = name], [m EXCEPT !.name = name])
          BY ONLY <5>2, name \in KeyName, RenamedStandsFor
        <5> QED
          BY <5>1, <5>3, Zenon
      <4>2. CASE k # i
        BY <2>2, <2>4, <4>2
      <4> QED
        BY <4>1, <4>2
    <3> QED
      BY <3>1
  <2>6. \A k \in DOMAIN sent :
          /\ sent'[k] \in SentKey
          /\ meant'[k] \in MeantKey
    BY <2>5 DEF StandsFor, SentKey, MeantKey
  <2>7. /\ sent' \in Seq(SentKey)
        /\ meant' \in Seq(MeantKey)
        /\ Len(sent') = Len(meant') /\ DOMAIN sent' = DOMAIN sent
    <3>1. Len(sent) \in Nat
      BY DEF MaskInv
    <3>2. /\ sent' \in [1..Len(sent) -> SentKey]
          /\ meant' \in [1..Len(sent) -> MeantKey]
      BY <2>1, <2>3, <2>6
    <3> QED
      BY <3>1, <3>2, <2>3, TableIsSeq
  <2>8. \A k \in DOMAIN sent' : StandsFor(sent[k], meant[k])'
    BY <2>0, <2>5, <2>7 DEF StandsFor, SentKey, MeantKey
  <2> QED
    BY <2>0, <2>7, <2>8, <1>4 DEF MaskInv
<1>5. CASE Send
  <2>1. UnmaskSecrets' = UnmaskSecrets /\ Group' = Group
    BY <1>5 DEF Send, UnmaskSecrets, Candidates, Resolved, SameIdentity, Group
  <2>2. result' = UnmaskSecrets
    BY <1>5 DEF Send
  <2> QED
    BY <1>5, <2>1, <2>2 DEF Send, MaskInv, StandsFor
<1> QED
  BY <1>1, <1>2, <1>3, <1>4, <1>5 DEF MaskNext

(* The candidates of a masked key are stored literals with its mask, of    *)
(* which the secret that is meant is one; any other key is its own         *)
(* candidate.                                                              *)
LEMMA CandidatesOf ==
  ASSUME MaskInv, NEW i \in DOMAIN sent
  PROVE  /\ meant[i].value \in Secret
         /\ sent[i].value \notin Shown => Candidates(i) = {meant[i].value}
         /\ sent[i].value \in Shown =>
              /\ Candidates(i) = Resolved(i)
              /\ meant[i].value \in Group \cap Literal
              /\ Mask(meant[i].value) = sent[i].value
<1> USE MaskConstants
<1>1. StandsFor(sent[i], meant[i])
  BY DEF MaskInv
<1>2. meant[i].value \in Secret
  BY <1>1 DEF StandsFor, SentKey, MeantKey
<1>3. CASE sent[i].value \notin Shown
  <2>1. sent[i].value = meant[i].value
    BY <1>1, <1>2, <1>3 DEF StandsFor, Mask, SentKey, MeantKey
  <2> QED
    BY <2>1, <1>2, <1>3 DEF Candidates
<1>4. CASE sent[i].value \in Shown
  <2>1. sent[i].value = Mask(meant[i].value) /\ meant[i].value \in Group
    BY <1>1, <1>2, <1>4 DEF StandsFor, SentKey, MeantKey
  <2>2. meant[i].value \in Literal
    BY <2>1, <1>2, <1>4 DEF Mask
  <2> QED
    BY <2>1, <2>2, <1>2, <1>4 DEF Candidates
<1> QED
  BY <1>2, <1>3, <1>4

(* The group is as long as its sequence of keys.                            *)
LEMMA GroupIsFinite == ASSUME MaskInv PROVE IsFiniteSet(Group)
<1>1. DOMAIN stored = 1..Len(stored) /\ Len(stored) \in Nat
  BY DEF MaskInv
<1>2. IsFiniteSet(DOMAIN stored)
  BY <1>1, FS_Interval
<1> DEFINE value == [i \in DOMAIN stored |-> stored[i].value]
<1>3. value \in Surjection(DOMAIN stored, Group)
  BY DEF Group, Values, Surjection
<1> HIDE DEF value
<1> QED
  BY <1>2, <1>3, FS_Surjection

LEMMA SameIdentityIsStored ==
  ASSUME MaskInv, NEW i \in DOMAIN sent, NEW v \in SameIdentity(i)
  PROVE  /\ v \in Group
         /\ \E j \in DOMAIN stored :
              /\ v = stored[j].value
              /\ IF named THEN sent[i].name = stored[j].name
                 ELSE i = j /\ Len(sent) = Len(stored)
BY DEF SameIdentity, Group, Values

(* When the candidate of every key is the secret that is meant, the group  *)
(* is saved as it is meant.                                                *)
LEMMA SavedAsMeant ==
  ASSUME MaskInv, UnmaskSecrets # Refused,
         \A i \in DOMAIN sent : Candidates(i) = {meant[i].value}
  PROVE  UnmaskSecrets = Saved(meant)
<1> DEFINE keys == [i \in DOMAIN sent |->
                     [name |-> sent[i].name, value |-> CHOOSE v \in Candidates(i) : TRUE]]
<1>1. UnmaskSecrets = Saved(keys)
  BY DEF UnmaskSecrets
<1>2. \A i \in DOMAIN sent : (CHOOSE v \in Candidates(i) : TRUE) = meant[i].value
  OBVIOUS
<1>3. \A i \in DOMAIN sent :
        /\ meant[i] \in MeantKey
        /\ sent[i].name = meant[i].name
  BY DEF MaskInv, StandsFor
<1>4. \A i \in DOMAIN sent : keys[i] = meant[i]
  BY <1>2, <1>3 DEF MeantKey
<1>5. DOMAIN meant = DOMAIN sent /\ meant = [i \in DOMAIN sent |-> meant[i]]
  BY DEF MaskInv
<1>6. keys = meant
  BY <1>4, <1>5
<1> QED
  BY <1>1, <1>6

LEMMA DistinctExact == MaskInv => DistinctMasksExact
<1> SUFFICES ASSUME MaskInv, \A v, w \in Group : Mask(v) = Mask(w) => v = w,
                    result # NotSent
             PROVE  result = Saved(meant)
  BY DEF DistinctMasksExact, AsMeant
<1>1. ASSUME NEW i \in DOMAIN sent PROVE Candidates(i) = {meant[i].value}
  <2>1. CASE sent[i].value \notin Shown
    BY <2>1, CandidatesOf
  <2>2. CASE sent[i].value \in Shown
    <3>1. /\ Candidates(i) = Resolved(i)
          /\ meant[i].value \in Group \cap Literal
          /\ Mask(meant[i].value) = sent[i].value
      BY <2>2, CandidatesOf
    <3>2. {v \in Group \cap Literal : Mask(v) = sent[i].value} = {meant[i].value}
      BY <3>1
    <3>3. {v \in SameIdentity(i) \cap Literal : Mask(v) = sent[i].value}
            \subseteq {meant[i].value}
      BY <3>1, SameIdentityIsStored
    <3> QED
      BY <3>1, <3>2, <3>3 DEF Resolved
  <2> QED
    BY <2>1, <2>2
<1>2. \A i \in DOMAIN sent : Cardinality(Candidates(i)) = 1
  BY <1>1, FS_Singleton
<1>3. UnmaskSecrets # Refused
  BY <1>2 DEF UnmaskSecrets, Saved, Refused
<1>4. UnmaskSecrets = Saved(meant)
  BY <1>1, <1>3, SavedAsMeant
<1> QED
  BY <1>4 DEF MaskInv

LEMMA NeverAnother == MaskInv => NeverAnotherSecret
<1> SUFFICES ASSUME MaskInv, ~IdentityMoved, result # NotSent, result # Refused
             PROVE  result = Saved(meant)
  BY DEF NeverAnotherSecret, AsMeant
<1>1. result = UnmaskSecrets
  BY DEF MaskInv
<1>2. \A i \in DOMAIN sent : Cardinality(Candidates(i)) = 1
  BY <1>1 DEF UnmaskSecrets
<1>3. ASSUME NEW i \in DOMAIN sent PROVE Candidates(i) = {meant[i].value}
  <2>1. CASE sent[i].value \notin Shown
    BY <2>1, CandidatesOf
  <2>2. CASE sent[i].value \in Shown
    <3> DEFINE same == {v \in SameIdentity(i) \cap Literal : Mask(v) = sent[i].value}
    <3>1. /\ Candidates(i) = Resolved(i)
          /\ meant[i].value \in Group \cap Literal
          /\ Mask(meant[i].value) = sent[i].value
      BY <2>2, CandidatesOf
    <3>2. ASSUME NEW v \in same PROVE v = meant[i].value
      <4>1. PICK j \in DOMAIN stored :
              /\ v = stored[j].value
              /\ IF named THEN sent[i].name = stored[j].name
                 ELSE i = j /\ Len(sent) = Len(stored)
        BY <3>2, SameIdentityIsStored
      <4>2. i \in DOMAIN meant /\ meant[i].name = sent[i].name
        BY DEF MaskInv, StandsFor, SentKey, MeantKey
      <4> QED
        BY <4>1, <4>2, <2>2 DEF IdentityMoved
    <3>3. CASE same # {}
      <4>1. same = {meant[i].value}
        BY <3>2, <3>3
      <4> QED
        BY <3>1, <3>3, <4>1 DEF Resolved
    <3>4. CASE same = {}
      <4>1. Candidates(i) = {v \in Group \cap Literal : Mask(v) = sent[i].value}
        BY <3>1, <3>4 DEF Resolved
      <4>2. meant[i].value \in Candidates(i)
        BY <3>1, <4>1
      <4>3. IsFiniteSet(Candidates(i))
        BY <4>1, GroupIsFinite, FS_Subset
      <4>4. PICK w : Candidates(i) = {w}
        BY <1>2, <4>3, FS_Singleton
      <4> QED
        BY <4>2, <4>4
    <3> QED
      BY <3>3, <3>4
  <2> QED
    BY <2>1, <2>2
<1> QED
  BY <1>1, <1>3, SavedAsMeant

LEMMA MaskInvariant == MaskSpec => []MaskInv
<1>1. MaskInit => MaskInv
  BY MaskInitOK
<1>2. MaskInv /\ [MaskNext]_maskVars => MaskInv'
  BY MaskNextOK
<1> QED
  BY <1>1, <1>2, PTL DEF MaskSpec

(* Whatever an admin removes, adds and renames, when the stored secrets    *)
(* have different masks the group that is sent back is saved as it is      *)
(* meant (unmask_secrets of config_store.py).                              *)
THEOREM EditsAreExact == MaskSpec => []DistinctMasksExact
<1>1. MaskInv => DistinctMasksExact
  BY DistinctExact
<1> QED
  BY <1>1, MaskInvariant, PTL

(* When masks are equal an edit that moves no name and no position from    *)
(* one secret to another is saved as it is meant or refused.               *)
THEOREM SecretsStayApart == MaskSpec => []NeverAnotherSecret
<1>1. MaskInv => NeverAnotherSecret
  BY NeverAnother
<1> QED
  BY <1>1, MaskInvariant, PTL

-----------------------------------------------------------------------------
(* ConfigStore: saves, backups and the running configuration.              *)

StoreType ==
  /\ file \in Bytes
  /\ live \in Startable \cup {Down}
  /\ session \in [Admin -> Session]
  /\ edited \in BOOLEAN

(* At most one session is between the version check and the release of the *)
(* lock, none while the process is down, and it saves a valid content.     *)
OneSave ==
  /\ \A a, b \in Admin :
       /\ session[a].pc \in InSave
       /\ session[b].pc \in InSave \cup {"applied"}
       => a = b
  /\ live = Down => \A a \in Admin : session[a].pc \in {"idle", "read"}
  /\ \A a \in Admin : session[a].pc \in InSave => session[a].content \in Valid

(* Between the rename and the swap the file is what the swap will try; at  *)
(* any other time it is what runs, or nothing can be built from it.        *)
FileAndLive ==
  /\ edited \/ file \in Startable \cup Valid
  /\ \A a \in Admin : session[a].pc = "swap" => edited \/ file = session[a].content
  /\ live # Down /\ (\A a \in Admin : session[a].pc # "swap") /\ file \in Startable
       => edited \/ live = file

Inv == StoreType /\ OneSave /\ FileAndLive /\ NoLostUpdate

USE StoreConstants
USE DEF Bytes, InSave

(* What a hand edit during a save changes of its session.                  *)
LEMMA RacedSession ==
  ASSUME NEW s \in Session
  PROVE  LET t == [s EXCEPT !.raced = TRUE]
         IN  /\ t \in Session /\ t.raced
             /\ t.pc = s.pc /\ t.content = s.content /\ t.latest = s.latest
BY DEF Session

LEMMA InvInit == Init => Inv
<1> SUFFICES ASSUME Init PROVE Inv
  OBVIOUS
<1>1. NoSession \in Session /\ NoSession.pc = "idle"
  BY DEF NoSession, Session, Phase
<1>2. \A a \in Admin : session[a] = NoSession
  BY DEF Init
<1>3. StoreType
  BY <1>1 DEF Init, StoreType
<1>4. OneSave /\ FileAndLive /\ NoLostUpdate
  BY <1>1, <1>2 DEF Init, OneSave, FileAndLive, NoLostUpdate
<1> QED
  BY <1>3, <1>4 DEF Inv

LEMMA InvNext == Inv /\ [Next]_vars => Inv'
<1> SUFFICES ASSUME Inv, [Next]_vars PROVE Inv'
  OBVIOUS
<1> USE DEF Inv, StoreType, OneSave, FileAndLive, NoLostUpdate
<1>1. ASSUME NEW a \in Admin, Read(a) PROVE Inv'
  BY <1>1 DEF Read, LoopFree, Session, Phase, NoSession
<1>2. ASSUME NEW a \in Admin, NEW content \in Parsable, Submit(a, content)
      PROVE Inv'
  <2>0. session[a] \in Session
    OBVIOUS
  <2> DEFINE s == [session[a] EXCEPT !.pc = "waiting", !.content = content]
  <2>1. s \in Session
    BY <2>0 DEF Session, Phase
  <2>2. session' = [session EXCEPT ![a] = s]
    BY <1>2 DEF Submit, Session
  <2>3. StoreType'
    BY <1>2, <2>1, <2>2 DEF Submit
  <2>4. /\ session'[a] = s
        /\ \A b \in Admin : b # a => session'[b] = session[b]
    BY <2>1, <2>2
  <2>5. OneSave'
    BY <1>2, <2>4 DEF Submit, LoopFree, Session
  <2>6. FileAndLive' /\ NoLostUpdate'
    BY <1>2, <2>4 DEF Submit, LoopFree, Session
  <2> QED
    BY <2>3, <2>5, <2>6
<1>3. ASSUME NEW a \in Admin, NEW name \in DOMAIN backups, Restore(a, name)
      PROVE Inv'
  BY <1>3 DEF Restore, LoopFree, Session, Phase, NoSession
<1>4. ASSUME NEW a \in Admin, Abandon(a) PROVE Inv'
  BY <1>4 DEF Abandon, LoopFree, Session, Phase, NoSession
<1>5. ASSUME NEW a \in Admin, Begin(a) PROVE Inv'
  BY <1>5 DEF Begin, LoopFree, LockFree, Acceptable, Session, Phase
<1>6. ASSUME NEW a \in Admin, Backup(a) PROVE Inv'
  <2> DEFINE first == issued <= Keep
  <2> DEFINE s == [session[a] EXCEPT !.pc = "prune", !.latest = first]
  <2>0. first \in BOOLEAN /\ session[a] \in Session
    OBVIOUS
  <2>1. s \in Session
    <3> HIDE DEF first
    <3> QED
      BY <2>0 DEF Session, Phase
  <2>2. session' = [session EXCEPT ![a] = s]
    BY <1>6 DEF Backup, Session
  <2>3. StoreType'
    BY <1>6, <2>1, <2>2 DEF Backup
  <2>4. /\ session'[a] = s
        /\ \A b \in Admin : b # a => session'[b] = session[b]
    BY <2>1, <2>2
  <2>5. OneSave'
    BY <1>6, <2>4 DEF Backup, Session
  <2>6. FileAndLive' /\ NoLostUpdate'
    BY <1>6, <2>4 DEF Backup, Session
  <2> QED
    BY <2>3, <2>5, <2>6
<1>7. ASSUME NEW a \in Admin, Prune(a) PROVE Inv'
  BY <1>7 DEF Prune, Session, Phase
<1>8. ASSUME NEW a \in Admin, WriteTmp(a) PROVE Inv'
  BY <1>8 DEF WriteTmp, Session, Phase
<1>9. ASSUME NEW a \in Admin, Replace(a) PROVE Inv'
  <2> DEFINE s == [session[a] EXCEPT !.pc = "swap"]
  <2>1. s \in Session
    BY <1>9 DEF Replace, Session, Phase
  <2>2. session' = [session EXCEPT ![a] = s]
    BY <1>9 DEF Replace, Session
  <2>3. StoreType'
    BY <1>9, <2>1, <2>2 DEF Replace
  <2>4. /\ session'[a] = s
        /\ \A b \in Admin : b # a => session'[b] = session[b]
    BY <2>1, <2>2
  <2>5. OneSave'
    BY <1>9, <2>4 DEF Replace, Session
  <2>6. FileAndLive' /\ NoLostUpdate'
    BY <1>9, <2>4 DEF Replace, Session
  <2> QED
    BY <2>3, <2>5, <2>6
<1>10. ASSUME NEW a \in Admin, Swap(a) PROVE Inv'
  <2>0. /\ Applied \in Session /\ Applied.pc = "applied"
        /\ NoSession \in Session /\ NoSession.pc = "idle"
    BY DEF Applied, NoSession, Session, Phase
  <2>1. PICK s \in {Applied, NoSession} : session' = [session EXCEPT ![a] = s]
    BY <1>10 DEF Swap
  <2>2. /\ session'[a] = s /\ s \in Session /\ s.pc \in {"applied", "idle"}
        /\ \A b \in Admin : b # a => session'[b] = session[b]
    BY <2>0, <2>1
  <2>3. /\ \A b \in Admin : b # a => session[b].pc \notin InSave \cup {"applied"}
        /\ live # Down /\ session[a].pc = "swap"
    BY <1>10 DEF Swap
  <2>4. StoreType'
    BY <1>10, <2>1, <2>2 DEF Swap
  <2>5. OneSave'
    BY <1>10, <2>2, <2>3, StoreConstants DEF Swap
  <2>6. FileAndLive'
    BY <1>10, <2>2, <2>3 DEF Swap
  <2>7. NoLostUpdate'
    BY <1>10, <2>2, <2>3 DEF Swap
  <2> QED
    BY <2>4, <2>5, <2>6, <2>7
<1>11. ASSUME NEW a \in Admin, Finish(a) PROVE Inv'
  BY <1>11 DEF Finish, LoopFree, Session, Phase, NoSession
<1>12. ASSUME NEW bytes \in Bytes, Edit(bytes) PROVE Inv'
  <2>1. \A a \in Admin :
          /\ session'[a] \in Session
          /\ session'[a].pc = session[a].pc
          /\ session'[a].content = session[a].content
          /\ session[a].pc \in InSave => session'[a].raced
    <3> SUFFICES ASSUME NEW a \in Admin
                 PROVE  /\ session'[a] \in Session
                        /\ session'[a].pc = session[a].pc
                        /\ session'[a].content = session[a].content
                        /\ session[a].pc \in InSave => session'[a].raced
      OBVIOUS
    <3> DEFINE s == session[a]
               t == [s EXCEPT !.raced = TRUE]
    <3>1. s \in Session
      OBVIOUS
    <3>2. session'[a] = IF s.pc \in InSave THEN t ELSE s
      BY <1>12 DEF Edit
    <3> HIDE DEF t
    <3>3. /\ t \in Session /\ t.raced
          /\ t.pc = s.pc /\ t.content = s.content
      BY <3>1, RacedSession DEF t
    <3> HIDE DEF s, InSave
    <3> QED
      BY <3>1, <3>2, <3>3, Zenon DEF s
  <2>2. /\ session' \in [Admin -> Session]
        /\ edited' = TRUE /\ file' \in Bytes /\ live' = live
    BY <1>12, <2>1 DEF Edit
  <2>3. OneSave'
    BY <2>1, <2>2
  <2>4. FileAndLive' /\ NoLostUpdate'
    BY <2>1, <2>2
  <2> QED
    BY <2>2, <2>3, <2>4
<1>13. CASE Reload
  BY <1>13 DEF Reload, LoopFree
<1>14. CASE Crash
  BY <1>14 DEF Crash, Session, Phase, NoSession
<1>15. CASE Restart
  BY <1>15 DEF Restart
<1>16. CASE (\E s \in 0..Seconds : SetClock(s)) \/ UNCHANGED vars
  BY <1>16 DEF SetClock, vars
<1> QED
  BY <1>1, <1>2, <1>3, <1>4, <1>5, <1>6, <1>7, <1>8, <1>9, <1>10, <1>11,
     <1>12, <1>13, <1>14, <1>15, <1>16 DEF Next, Save

LEMMA InvAlways == Spec => []Inv
BY InvInit, InvNext, PTL DEF Spec

(* README.md:917: "If two people edit at once, the second save is refused  *)
(* ... instead of overwriting." No save that carries a version replaces    *)
(* bytes its author has not seen.                                          *)
THEOREM NoUpdateLost == Spec => []NoLostUpdate
BY InvAlways, PTL DEF Inv

(* Whenever the process dies, the file it leaves is whole: one it can be   *)
(* started from or, where validate_raw and the building of the adapters    *)
(* differ, one that validate_raw accepted; unless a hand edit broke it.    *)
THEOREM FileStaysStartable == Spec => []FileStartable
<1>1. Inv => FileStartable
  BY DEF Inv, FileAndLive, FileStartable
<1> QED
  BY <1>1, InvAlways, PTL

(* No interleaving of saves, restores, reloads, crashes and restarts, of   *)
(* which any may fail, leaves the running configuration different from a   *)
(* file that the gateway could run.                                        *)
THEOREM LiveFollowsFile == Spec => []LiveIsFile
<1>1. Inv => LiveIsFile
  BY DEF Inv, FileAndLive, LiveIsFile, LoopFree
<1> QED
  BY <1>1, InvAlways, PTL

-----------------------------------------------------------------------------
(* Natural numbers, names and the sets of them.                            *)
LEMMA LeastNat ==
  ASSUME NEW S \in SUBSET Nat, S # {}
  PROVE  \E m \in S : \A n \in S : m <= n
<1> DEFINE T == {0..n : n \in S}
<1> DEFINE R == StrictSubsetOrdering(Nat)
<1>1. IsWellFoundedOn(R, FiniteSubsetsOf(Nat))
  BY FS_StrictSubsetOrderingWellFounded
<1>2. \A n \in S : 0..n \in FiniteSubsetsOf(Nat)
  <2>1. \A n \in Nat : IsFiniteSet(0..n)
    BY FS_Interval
  <2>2. \A n \in Nat : 0..n \in SUBSET Nat
    OBVIOUS
  <2> QED
    BY <2>1, <2>2 DEF FiniteSubsetsOf
<1>3. T \subseteq FiniteSubsetsOf(Nat) /\ T # {}
  BY <1>2
<1>4. \E x \in T : \A y \in T : ~ (<<y, x>> \in R)
  <2> HIDE DEF T, R
  <2> QED
    BY <1>1, <1>3, WFMin
<1>5. PICK m \in S : \A n \in S : ~ (<<0..n, 0..m>> \in R)
  BY <1>4
<1>6. ASSUME NEW n \in S, n < m PROVE FALSE
  <2>1. /\ (0..n) \subseteq (0..m) /\ 0..n # 0..m
        /\ (0..n) \in SUBSET Nat /\ (0..m) \in SUBSET Nat
    BY <1>6
  <2> QED
    BY <2>1, <1>5 DEF StrictSubsetOrdering
<1> QED
  BY <1>5, <1>6
LEMMA MinIsLeast ==
  ASSUME NEW S \in SUBSET Nat, S # {}
  PROVE  /\ Min(S) \in S
         /\ \A n \in S : Min(S) <= n
BY LeastNat DEF Min

(* The name of a backup is free, of this second, and the first such one.   *)
LEMMA FreeNameIsFirst ==
  ASSUME IsFiniteSet(DOMAIN backups), second \in 0..Seconds
  PROVE  /\ FreeName \in Name /\ FreeName \notin DOMAIN backups
         /\ FreeName = <<second, FreeName[2]>>
         /\ \A m \in Nat : m < FreeName[2] => <<second, m>> \in DOMAIN backups
<1> DEFINE N == DOMAIN backups
<1> DEFINE c == Cardinality(N)
<1> DEFINE S == {n \in 0..c : <<second, n>> \notin N}
<1>1. c \in Nat
  BY FS_CardinalityType
<1>2. S # {}
  <2> SUFFICES ASSUME S = {} PROVE FALSE
    OBVIOUS
  <2> DEFINE f == [n \in 0..c |-> <<second, n>>]
  <2>1. \A n \in 0..c : f[n] \in N
    OBVIOUS
  <2>2. f \in [0..c -> N]
    BY <2>1
  <2>3. IsFiniteSet(0..c) /\ Cardinality(0..c) = c + 1
    <3> HIDE DEF c
    <3> QED
      BY <1>1, FS_Interval
  <2>4. f \in Injection(0..c, N)
    <3>1. \A i, j \in 0..c : f[i] = f[j] => i = j
      OBVIOUS
    <3> QED
      BY <2>2, <3>1 DEF Injection, IsInjective
  <2>5. Cardinality(0..c) <= Cardinality(N)
    <3>1. IsFiniteSet(N)
      OBVIOUS
    <3> HIDE DEF f, c, N
    <3> QED
      BY <2>4, <3>1, FS_Injection
  <2> QED
    BY <1>1, <2>3, <2>5
<1>3. S \in SUBSET Nat
  BY <1>1
<1>4. Min(S) \in S /\ \A n \in S : Min(S) <= n
  <2> HIDE DEF S
  <2> QED
    BY <1>2, <1>3, MinIsLeast
<1>5. FreeName = <<second, Min(S)>>
  BY DEF FreeName
<1>6. ASSUME NEW m \in Nat, m < Min(S) PROVE <<second, m>> \in N
  BY <1>1, <1>4, <1>6
<1> QED
  BY <1>3, <1>4, <1>5, <1>6 DEF Name

(* Of two names one is older.                                              *)
LEMMA OlderIsTotal ==
  ASSUME NEW x \in Name, NEW y \in Name, x # y
  PROVE  Older(x, y) \/ Older(y, x)
BY StoreConstants DEF Name, Older

(* A set of names has an oldest one.                                       *)
LEMMA OldestExists ==
  ASSUME NEW M \in SUBSET Name, M # {}
  PROVE  \E x \in M : \A y \in M : x = y \/ Older(x, y)
<1> DEFINE F == {x[1] : x \in M}
<1>1. F \in SUBSET Nat /\ F # {}
  BY StoreConstants DEF Name
<1>2. PICK s \in F : \A t \in F : s <= t
  <2> HIDE DEF F
  <2> QED
    BY <1>1, LeastNat
<1> DEFINE G == {x[2] : x \in {y \in M : y[1] = s}}
<1>3. G \in SUBSET Nat /\ G # {}
  BY <1>2 DEF Name
<1>4. PICK n \in G : \A m \in G : n <= m
  <2> HIDE DEF G
  <2> QED
    BY <1>3, LeastNat
<1>5. PICK x \in M : x[1] = s /\ x[2] = n
  BY <1>4
<1>6. ASSUME NEW y \in M PROVE x = y \/ Older(x, y)
  <2>1. s <= y[1]
    BY <1>2
  <2>2. y[1] = s => n <= y[2]
    BY <1>4
  <2>3. /\ y[1] \in Nat /\ y[2] \in Nat /\ s \in Nat /\ n \in Nat
        /\ y = <<y[1], y[2]>> /\ x = <<s, n>>
    BY <1>1, <1>3, <1>5, StoreConstants DEF Name
  <2> QED
    BY <1>5, <2>1, <2>2, <2>3 DEF Older
<1> QED
  BY <1>6

(* No more than Keep are the newest Keep: all but the oldest of them are   *)
(* newer than that one.                                                    *)
LEMMA NewestAreFew ==
  ASSUME NEW names \in SUBSET Name, IsFiniteSet(names)
  PROVE  /\ Newest(names) \subseteq names
         /\ IsFiniteSet(Newest(names))
         /\ Cardinality(Newest(names)) <= Keep
<1> DEFINE M == Newest(names)
<1>1. M \subseteq names
  BY DEF Newest
<1>2. IsFiniteSet(M)
  BY <1>1, FS_Subset
<1>3. CASE M = {}
  BY <1>1, <1>2, <1>3, FS_EmptySet, StoreConstants
<1>4. CASE M # {}
  <2>1. PICK x \in M : \A y \in M : x = y \/ Older(x, y)
    <3> HIDE DEF M
    <3> QED
      BY <1>1, <1>4, OldestExists
  <2> DEFINE L == {y \in names : Older(x, y)}
  <2>2. Cardinality(L) < Keep
    BY DEF Newest
  <2>3. M \ {x} \subseteq L
    BY <1>1, <2>1
  <2>4. IsFiniteSet(L) /\ Cardinality(L) \in Nat
    BY FS_Subset, FS_CardinalityType
  <2>5. Cardinality(M \ {x}) <= Cardinality(L)
    <3> HIDE DEF L, M
    <3> QED
      BY <2>3, <2>4, FS_Subset
  <2>6. Cardinality(M \ {x}) = Cardinality(M) - 1 /\ Cardinality(M) \in Nat
    <3> HIDE DEF M
    <3> QED
      BY <1>2, FS_RemoveElement, FS_CardinalityType
  <2> QED
    BY <1>1, <1>2, <2>2, <2>4, <2>5, <2>6, StoreConstants
<1> QED
  BY <1>3, <1>4

-----------------------------------------------------------------------------
(* The backups: finitely many, at most Keep of them once a save has pruned *)
(* them.                                                                   *)
BackupsOK ==
  /\ IsFiniteSet(DOMAIN backups) /\ DOMAIN backups \subseteq Name
  /\ \A name \in DOMAIN backups : backups[name] \in Bytes
  /\ second \in 0..Seconds /\ issued \in 0..(Keep + 1)
  /\ \A a \in Admin : session[a].pc \in {"write", "replace"} =>
       Cardinality(DOMAIN backups) <= Keep

(* Writing a backup adds the free name and changes no other.               *)
LEMMA WithBackupAdds ==
  ASSUME BackupsOK, NEW bytes \in Bytes
  PROVE  LET after == WithBackup(bytes)
         IN  /\ DOMAIN after = DOMAIN backups \cup {FreeName}
             /\ IsFiniteSet(DOMAIN after) /\ DOMAIN after \subseteq Name
             /\ after[FreeName] = bytes
             /\ \A name \in DOMAIN backups : after[name] = backups[name]
             /\ \A name \in DOMAIN after : after[name] \in Bytes
<1>1. FreeName \in Name /\ FreeName \notin DOMAIN backups
  BY FreeNameIsFirst DEF BackupsOK
<1>2. IsFiniteSet(DOMAIN backups \cup {FreeName})
  BY FS_AddElement DEF BackupsOK
<1> HIDE DEF FreeName
<1> QED
  BY <1>1, <1>2 DEF WithBackup, BackupsOK

(* Pruning keeps at most Keep backups and changes none of them.            *)
LEMMA PruneKeeps ==
  ASSUME BackupsOK
  PROVE  LET after == Restrict(backups, Newest(DOMAIN backups))
         IN  /\ DOMAIN after = Newest(DOMAIN backups)
             /\ DOMAIN after \subseteq DOMAIN backups
             /\ IsFiniteSet(DOMAIN after) /\ Cardinality(DOMAIN after) <= Keep
             /\ \A name \in DOMAIN after : after[name] = backups[name]
<1>1. /\ Newest(DOMAIN backups) \subseteq DOMAIN backups
      /\ IsFiniteSet(Newest(DOMAIN backups))
      /\ Cardinality(Newest(DOMAIN backups)) <= Keep
  BY NewestAreFew DEF BackupsOK
<1> QED
  BY <1>1 DEF Restrict

(* One more name: the number of them that is kept.                         *)
LEMMA OneMore ==
  ASSUME issued \in 0..(Keep + 1)
  PROVE  /\ Min({issued, Keep}) + 1 \in 0..(Keep + 1)
         /\ issued <= Keep => Min({issued, Keep}) = issued
<1> DEFINE S == {issued, Keep}
<1>1. Keep \in Nat /\ issued \in Nat
  BY StoreConstants
<1>2. S \in SUBSET Nat /\ S # {}
  BY <1>1
<1>3. Min(S) \in S /\ \A n \in S : Min(S) <= n
  <2> HIDE DEF S
  <2> QED
    BY <1>2, MinIsLeast
<1>4. Min(S) \in Nat /\ Min(S) <= Keep /\ Min(S) <= issued /\ Min(S) \in {issued, Keep}
  BY <1>1, <1>3
<1> HIDE DEF S
<1>5. Min(S) + 1 \in 0..(Keep + 1) /\ (issued <= Keep => Min(S) = issued)
  BY <1>1, <1>4
<1> QED
  BY <1>5 DEF S

LEMMA FullAtKeep ==
  ASSUME issued \in 0..(Keep + 1), ~(issued <= Keep)
  PROVE  ~(Min({issued, Keep}) + 1 <= Keep)
<1> DEFINE S == {issued, Keep}
<1>1. Keep \in Nat /\ issued \in Nat
  BY StoreConstants
<1>2. S \in SUBSET Nat /\ S # {}
  BY <1>1
<1>3. Min(S) \in S
  <2> HIDE DEF S
  <2> QED
    BY <1>2, MinIsLeast
<1> QED
  BY <1>1, <1>3

(* The session of an action that is not the first writer's stays out of    *)
(* the last steps of a save.                                               *)
LEMMA BackupsOKNext ==
  ASSUME Inv, BackupsOK, [Next]_vars
  PROVE  BackupsOK'
<1> USE DEF Inv, StoreType
<1> DEFINE LastSteps == {"write", "replace"}
<1>0. ASSUME backups' = backups, second' \in 0..Seconds, issued' \in 0..(Keep + 1),
             \A a \in Admin : session'[a].pc \in LastSteps =>
                \E b \in Admin : session[b].pc \in LastSteps
      PROVE  BackupsOK'
  BY <1>0 DEF BackupsOK
<1>1. ASSUME NEW a \in Admin, Read(a) PROVE BackupsOK'
  BY <1>0, <1>1 DEF Read, BackupsOK, NoSession
<1>2. ASSUME NEW a \in Admin, NEW content \in Parsable, Submit(a, content)
      PROVE BackupsOK'
  <2>1. \A b \in Admin : session'[b].pc \in LastSteps => session[b].pc \in LastSteps
    BY <1>2 DEF Submit, Session
  <2> QED
    BY <1>0, <1>2, <2>1 DEF Submit, BackupsOK
<1>3. ASSUME NEW a \in Admin, NEW name \in DOMAIN backups, Restore(a, name)
      PROVE BackupsOK'
  <2>1. \A b \in Admin : session'[b].pc \in LastSteps => session[b].pc \in LastSteps
    BY <1>3 DEF Restore, NoSession
  <2> QED
    BY <1>0, <1>3, <2>1 DEF Restore, BackupsOK
<1>4. ASSUME NEW a \in Admin, Abandon(a) PROVE BackupsOK'
  BY <1>0, <1>4 DEF Abandon, BackupsOK, NoSession
<1>5. ASSUME NEW a \in Admin, Begin(a) PROVE BackupsOK'
  BY <1>0, <1>5 DEF Begin, BackupsOK, Session
<1>6. ASSUME NEW a \in Admin, Backup(a) PROVE BackupsOK'
  <2>1. /\ backups' = WithBackup(file) /\ second' = second
        /\ issued' = Min({issued, Keep}) + 1
    BY <1>6 DEF Backup, NameOne
  <2>2. \A b \in Admin : session'[b].pc \notin LastSteps
    BY <1>6 DEF Backup, Session, OneSave
  <2> QED
    BY <2>1, <2>2, WithBackupAdds, OneMore DEF BackupsOK
<1>7. ASSUME NEW a \in Admin, Prune(a) PROVE BackupsOK'
  <2>1. /\ backups' = Restrict(backups, Newest(DOMAIN backups))
        /\ issued' = issued /\ second' = second
    BY <1>7 DEF Prune
  <2> QED
    BY <2>1, PruneKeeps DEF BackupsOK
<1>8. ASSUME NEW a \in Admin, WriteTmp(a) PROVE BackupsOK'
  <2>1. \A b \in Admin : session'[b].pc \in LastSteps => session[b].pc \in LastSteps
    BY <1>8 DEF WriteTmp, Session
  <2> QED
    BY <1>0, <1>8, <2>1 DEF WriteTmp, BackupsOK
<1>9. ASSUME NEW a \in Admin, Replace(a) PROVE BackupsOK'
  BY <1>0, <1>9 DEF Replace, BackupsOK, Session
<1>10. ASSUME NEW a \in Admin, Swap(a) PROVE BackupsOK'
  BY <1>0, <1>10 DEF Swap, BackupsOK, Session, Applied, NoSession
<1>11. ASSUME NEW a \in Admin, Finish(a) PROVE BackupsOK'
  BY <1>0, <1>11 DEF Finish, BackupsOK, NoSession
<1>12. ASSUME NEW bytes \in Bytes, Edit(bytes) PROVE BackupsOK'
  <2>1. \A b \in Admin : session'[b].pc = session[b].pc
    BY <1>12 DEF Edit, Session
  <2> QED
    BY <1>0, <1>12, <2>1 DEF Edit, BackupsOK
<1>13. CASE Reload \/ Restart
  BY <1>0, <1>13 DEF Reload, Restart, BackupsOK
<1>14. CASE Crash
  <2>1. \A b \in Admin : session'[b].pc \notin LastSteps
    BY <1>14 DEF Crash, NoSession
  <2>2. CASE UNCHANGED <<backups, issued>>
    BY <1>0, <1>14, <2>1, <2>2 DEF Crash, BackupsOK
  <2>3. CASE backups' = WithBackup(Torn) /\ issued' = Min({issued, Keep}) + 1
    BY <1>14, <2>1, <2>3, WithBackupAdds, OneMore DEF Crash, BackupsOK
  <2> QED
    BY <1>14, <2>2, <2>3 DEF Crash, NameOne
<1>15. ASSUME NEW s \in 0..Seconds, SetClock(s) PROVE BackupsOK'
  <2>1. issued' \in 0..(Keep + 1)
    BY <1>15, StoreConstants DEF SetClock
  <2> QED
    BY <1>0, <1>15, <2>1 DEF SetClock
<1>16. CASE UNCHANGED vars
  BY <1>0, <1>16 DEF vars, BackupsOK
<1> QED
  BY <1>1, <1>2, <1>3, <1>4, <1>5, <1>6, <1>7, <1>8, <1>9, <1>10, <1>11,
     <1>12, <1>13, <1>14, <1>15, <1>16 DEF Next, Save

LEMMA BackupsOKInit == Init => BackupsOK
<1> SUFFICES ASSUME Init PROVE BackupsOK
  OBVIOUS
<1>1. DOMAIN backups = {}
  BY DEF Init
<1>2. \A a \in Admin : session[a].pc = "idle"
  BY DEF Init, NoSession
<1> QED
  BY <1>1, <1>2, FS_EmptySet, StoreConstants DEF Init, BackupsOK

LEMMA StoreAlways == Spec => [](Inv /\ BackupsOK)
BY InvInit, InvNext, BackupsOKInit, BackupsOKNext, PTL DEF Spec

(* Every variable keeps its type, and a save that has pruned leaves no     *)
(* more than KEEP_BACKUPS backups.                                         *)
THEOREM TypeCorrect == Spec => []TypeOK
<1>1. Inv /\ BackupsOK => TypeOK
  BY DEF Inv, StoreType, BackupsOK, TypeOK
<1> QED
  BY <1>1, StoreAlways, PTL

-----------------------------------------------------------------------------
(* Names and ages.  While issued is at most Keep, no backup is later than  *)
(* the clock, and those of this second are numbered below issued: all of   *)
(* them, because pruning takes older ones first.  So the next name is the  *)
(* latest, and pruning leaves it alone.  With more than Keep + 1 backups   *)
(* in a second a pruned number is free again, and the name of the newest   *)
(* copy sorts as the oldest; so it does behind a clock that was set back.  *)
NamesOK ==
  issued <= Keep =>
    /\ \A x \in DOMAIN backups :
         x[1] <= second /\ (x[1] = second => x[2] < issued)
    /\ \A n \in 0..Keep : n < issued => <<second, n>> \in DOMAIN backups

Newer(names, x) == {y \in names : Older(x, y)}

CopyIsNewest ==
  \A a \in Admin :
    session[a].pc = "prune" /\ session[a].latest =>
      session[a].raced \/ \E x \in DOMAIN backups : backups[x] = file
                                                 /\ Newer(DOMAIN backups, x) = {}

Kept == NamesOK /\ CopyIsNewest /\ BackupKept

(* While nothing was pruned of it, this second's next number is issued.     *)
LEMMA NextNumber ==
  ASSUME BackupsOK, NamesOK, issued <= Keep
  PROVE  FreeName = <<second, issued>>
<1>1. /\ FreeName \in Name /\ FreeName \notin DOMAIN backups
      /\ FreeName = <<second, FreeName[2]>>
      /\ \A m \in Nat : m < FreeName[2] => <<second, m>> \in DOMAIN backups
  BY FreeNameIsFirst DEF BackupsOK
<1> DEFINE k == FreeName[2]
<1>2. k \in Nat /\ issued \in Nat
  BY <1>1, StoreConstants DEF Name, BackupsOK
<1>3. FreeName = <<second, k>>
  BY <1>1
<1>4. \A m \in Nat : m < k => <<second, m>> \in DOMAIN backups
  BY <1>1
<1> HIDE DEF k
<1>5. ~ (k < issued)
  BY <1>1, <1>2, <1>3, StoreConstants DEF NamesOK
<1>6. ~ (issued < k)
  <2> SUFFICES ASSUME issued < k PROVE FALSE
    OBVIOUS
  <2>1. <<second, issued>> \in DOMAIN backups
    BY <1>2, <1>4
  <2>2. issued < issued
    BY <2>1 DEF NamesOK
  <2> QED
    BY <1>2, <2>2
<1> QED
  BY <1>2, <1>3, <1>5, <1>6

(* A backup that is written while the names are in order is the newest.    *)
LEMMA WrittenInOrder ==
  ASSUME BackupsOK, NamesOK, issued <= Keep, NEW bytes \in Bytes,
         backups' = WithBackup(bytes), issued' = Min({issued, Keep}) + 1,
         second' = second
  PROVE  /\ NamesOK'
         /\ \E x \in DOMAIN backups' : backups'[x] = bytes /\ Newer(DOMAIN backups', x) = {}
<1> DEFINE new == <<second, issued>>
<1>1. FreeName = new
  BY NextNumber
<1>2. /\ DOMAIN backups' = DOMAIN backups \cup {new}
      /\ backups'[new] = bytes
      /\ DOMAIN backups' \subseteq Name
  BY <1>1, WithBackupAdds
<1>3. second \in Nat /\ issued \in Nat /\ issued' = issued + 1
  BY OneMore, StoreConstants DEF BackupsOK
<1>4. ASSUME NEW x \in DOMAIN backups'
      PROVE  x[1] <= second' /\ (x[1] = second' => x[2] < issued')
  <2>1. CASE x = new
    BY <1>3, <2>1
  <2>2. CASE x \in DOMAIN backups
    <3>1. x[2] \in Nat /\ x[1] \in Nat
      BY <1>2, StoreConstants DEF Name
    <3> QED
      BY <1>3, <2>2, <3>1 DEF NamesOK
  <2> QED
    BY <1>2, <2>1, <2>2
<1>5. ASSUME NEW n \in 0..Keep, n < issued' PROVE <<second', n>> \in DOMAIN backups'
  <2>1. n < issued \/ n = issued
    BY <1>3, <1>5, StoreConstants
  <2> QED
    BY <1>2, <2>1 DEF NamesOK
<1>6. Newer(DOMAIN backups', new) = {}
  <2> SUFFICES ASSUME NEW y \in DOMAIN backups', Older(new, y) PROVE FALSE
    BY DEF Newer
  <2>1. y[1] \in Nat /\ y[2] \in Nat
    BY <1>2, StoreConstants DEF Name
  <2>2. y[1] <= second /\ (y[1] = second => y[2] < issued + 1)
    BY <1>2, <1>3, <1>4
  <2> QED
    BY <1>3, <2>1, <2>2 DEF Older
<1> QED
  BY <1>2, <1>4, <1>5, <1>6 DEF NamesOK

(* Pruning leaves the newest Keep alone: what nothing is newer than, and   *)
(* everything of this second while that is not more than Keep.             *)
LEMMA PrunedInOrder ==
  ASSUME BackupsOK, NamesOK, UNCHANGED <<second, issued>>,
         backups' = Restrict(backups, Newest(DOMAIN backups))
  PROVE  /\ NamesOK'
         /\ \A x \in DOMAIN backups :
              Newer(DOMAIN backups, x) = {} => x \in DOMAIN backups' /\ backups'[x] = backups[x]
<1> DEFINE N == DOMAIN backups
<1>1. /\ DOMAIN backups' = Newest(N) /\ DOMAIN backups' \subseteq N
      /\ \A name \in DOMAIN backups' : backups'[name] = backups[name]
  BY PruneKeeps
<1>2. IsFiniteSet(N) /\ N \subseteq Name /\ issued \in Nat /\ second \in Nat
  BY StoreConstants DEF BackupsOK
<1>3. ASSUME NEW x \in N, Newer(N, x) = {} PROVE x \in DOMAIN backups'
  <2>1. Cardinality(Newer(N, x)) < Keep
    BY <1>3, FS_EmptySet, StoreConstants
  <2> QED
    BY <1>1, <2>1 DEF Newest, Newer
<1>4. ASSUME issued <= Keep, NEW n \in 0..Keep, n < issued
      PROVE  <<second, n>> \in DOMAIN backups'
  <2> DEFINE x == <<second, n>>
  <2>1. x \in N
    BY <1>4 DEF NamesOK
  <2> DEFINE L == {y \in N : Older(x, y)}
  <2>2. \A y \in L : y[1] = second /\ y[2] \in 1..(issued - 1) /\ y = <<second, y[2]>>
    <3> SUFFICES ASSUME NEW y \in L
                 PROVE  y[1] = second /\ y[2] \in 1..(issued - 1) /\ y = <<second, y[2]>>
      OBVIOUS
    <3>1. /\ y[1] \in Nat /\ y[2] \in Nat /\ y = <<y[1], y[2]>>
          /\ y[1] <= second /\ (y[1] = second => y[2] < issued)
      BY <1>2, <1>4, StoreConstants DEF Name, NamesOK
    <3>2. second < y[1] \/ (second = y[1] /\ n < y[2])
      BY DEF Older
    <3> QED
      BY <1>2, <3>1, <3>2
  <2> DEFINE f == [y \in L |-> y[2]]
  <2>3. f \in Injection(L, 1..(issued - 1))
    <3>1. f \in [L -> 1..(issued - 1)]
      BY <2>2
    <3>2. \A y, z \in L : f[y] = f[z] => y = z
      BY <2>2
    <3> QED
      BY <3>1, <3>2 DEF Injection, IsInjective
  <2>4. IsFiniteSet(1..(issued - 1)) /\ Cardinality(1..(issued - 1)) = issued - 1
    <3>1. 1 \in Int /\ issued - 1 \in Int /\ issued > 0
      BY <1>2, <1>4
    <3> QED
      BY <1>2, <3>1, FS_Interval
  <2>5. IsFiniteSet(L) /\ Cardinality(L) <= Cardinality(1..(issued - 1))
    <3> HIDE DEF L, f
    <3> QED
      BY <2>3, <2>4, FS_Injection
  <2>6. Cardinality(L) \in Nat
    BY <2>5, FS_CardinalityType
  <2>7. Cardinality(L) < Keep
    <3> HIDE DEF L
    <3> QED
      BY <1>2, <1>4, <2>4, <2>5, <2>6, StoreConstants
  <2> QED
    BY <1>1, <2>1, <2>7 DEF Newest
<1> QED
  BY <1>1, <1>3, <1>4 DEF NamesOK

LEMMA KeptInit == Init => Kept
<1> SUFFICES ASSUME Init PROVE Kept
  OBVIOUS
<1>1. /\ DOMAIN backups = {} /\ second = 0 /\ issued = 0
      /\ \A a \in Admin : session[a].pc = "idle"
  BY DEF Init, NoSession
<1>2. ~ \E n \in 0..Keep : n < 0
  BY StoreConstants
<1> QED
  BY <1>1, <1>2 DEF Kept, NamesOK, CopyIsNewest, BackupKept

LEMMA KeptNext ==
  ASSUME Inv, BackupsOK, Kept, [Next]_vars
  PROVE  Kept'
<1> USE DEF Inv, StoreType, Kept
<1> DEFINE LastSteps == {"write", "replace"}
<1> DEFINE SameCopy(a) ==
      /\ session'[a].latest = session[a].latest
      /\ session'[a].raced \/ (session'[a].raced = session[a].raced /\ file' = file)
<1>a. ASSUME backups' = backups, NamesOK',
             \A a \in Admin :
               /\ session'[a].pc = "prune" => session[a].pc = "prune" /\ SameCopy(a)
               /\ session'[a].pc \in LastSteps => session[a].pc \in LastSteps /\ SameCopy(a)
      PROVE  Kept'
  BY <1>a DEF CopyIsNewest, BackupKept
<1>0. ASSUME UNCHANGED <<backups, second, issued>>,
             \A a \in Admin :
               /\ session'[a].pc = "prune" => session[a].pc = "prune" /\ SameCopy(a)
               /\ session'[a].pc \in LastSteps => session[a].pc \in LastSteps /\ SameCopy(a)
      PROVE  Kept'
  <2>1. NamesOK'
    BY <1>0 DEF NamesOK
  <2> QED
    BY <1>0, <1>a, <2>1
<1>1. ASSUME NEW a \in Admin, Read(a) PROVE Kept'
  BY <1>0, <1>1 DEF Read, NoSession
<1>2. ASSUME NEW a \in Admin, NEW content \in Parsable, Submit(a, content)
      PROVE Kept'
  BY <1>0, <1>2 DEF Submit, Session
<1>3. ASSUME NEW a \in Admin, NEW name \in DOMAIN backups, Restore(a, name)
      PROVE Kept'
  <2>1. \A b \in Admin : session'[b] = session[b] \/ session'[b].pc = "waiting"
    BY <1>3 DEF Restore, NoSession
  <2> QED
    BY <1>0, <1>3, <2>1 DEF Restore
<1>4. ASSUME NEW a \in Admin, Abandon(a) PROVE Kept'
  BY <1>0, <1>4 DEF Abandon, NoSession
<1>5. ASSUME NEW a \in Admin, Begin(a) PROVE Kept'
  BY <1>0, <1>5 DEF Begin, Session
<1>6. ASSUME NEW a \in Admin, Backup(a) PROVE Kept'
  <2>1. /\ backups' = WithBackup(file) /\ second' = second /\ file' = file
        /\ issued' = Min({issued, Keep}) + 1
    BY <1>6 DEF Backup, NameOne
  <2>2. \A b \in Admin :
          /\ session'[b].pc = "prune" => session'[b].latest = (issued <= Keep)
          /\ session'[b].pc \notin LastSteps
    BY <1>6 DEF Backup, Session, OneSave
  <2>3. CASE issued <= Keep
    <3>1. /\ NamesOK'
          /\ \E x \in DOMAIN backups' :
               backups'[x] = file /\ Newer(DOMAIN backups', x) = {}
      BY <2>1, <2>3, WrittenInOrder
    <3> QED
      BY <2>1, <2>2, <3>1 DEF CopyIsNewest, BackupKept
  <2>4. CASE ~(issued <= Keep)
    <3>1. ~(issued' <= Keep)
      BY <2>1, <2>4, FullAtKeep DEF BackupsOK
    <3> QED
      BY <2>2, <2>4, <3>1 DEF NamesOK, CopyIsNewest, BackupKept
  <2> QED
    BY <2>3, <2>4
<1>7. ASSUME NEW a \in Admin, Prune(a) PROVE Kept'
  <2>1. /\ backups' = Restrict(backups, Newest(DOMAIN backups))
        /\ UNCHANGED <<second, issued, file>>
        /\ session[a].pc = "prune"
    BY <1>7 DEF Prune
  <2>2. /\ NamesOK'
        /\ \A x \in DOMAIN backups :
             Newer(DOMAIN backups, x) = {} =>
               x \in DOMAIN backups' /\ backups'[x] = backups[x]
    BY <2>1, PrunedInOrder
  <2>3. session[a].latest => session[a].raced \/ \E x \in DOMAIN backups' : backups'[x] = file
    BY <2>1, <2>2 DEF CopyIsNewest
  <2>4. /\ session'[a].latest = session[a].latest /\ session'[a].raced = session[a].raced
        /\ \A b \in Admin :
             /\ session'[b].pc # "prune"
             /\ session'[b].pc \in LastSteps => b = a
    BY <1>7 DEF Prune, Session, OneSave
  <2> QED
    BY <2>1, <2>2, <2>3, <2>4 DEF CopyIsNewest, BackupKept
<1>8. ASSUME NEW a \in Admin, WriteTmp(a) PROVE Kept'
  BY <1>0, <1>8 DEF WriteTmp, Session
<1>9. ASSUME NEW a \in Admin, Replace(a) PROVE Kept'
  <2>1. \A b \in Admin : session'[b].pc \notin LastSteps \cup {"prune"}
    BY <1>9 DEF Replace, Session, OneSave
  <2> QED
    BY <1>0, <1>9, <2>1 DEF Replace
<1>10. ASSUME NEW a \in Admin, Swap(a) PROVE Kept'
  BY <1>0, <1>10 DEF Swap, Applied, NoSession
<1>11. ASSUME NEW a \in Admin, Finish(a) PROVE Kept'
  BY <1>0, <1>11 DEF Finish, NoSession
<1>12. ASSUME NEW bytes \in Bytes, Edit(bytes) PROVE Kept'
  <2>1. ASSUME NEW b \in Admin
        PROVE  /\ session'[b].pc = session[b].pc
               /\ session[b].pc \in InSave => SameCopy(b)
    <3> DEFINE s == session[b]
               t == [s EXCEPT !.raced = TRUE]
    <3>1. s \in Session /\ session'[b] = IF s.pc \in InSave THEN t ELSE s
      BY <1>12 DEF Edit
    <3> HIDE DEF t
    <3>2. t.raced /\ t.pc = s.pc /\ t.latest = s.latest
      BY <3>1, RacedSession DEF t
    <3> HIDE DEF s, InSave
    <3> QED
      BY <3>1, <3>2, Zenon DEF s
  <2> QED
    BY <1>0, <1>12, <2>1 DEF Edit
<1>13. CASE Reload \/ Restart
  BY <1>0, <1>13 DEF Reload, Restart
<1>14. CASE Crash
  <2>1. \A b \in Admin : session'[b].pc \notin LastSteps \cup {"prune"}
    BY <1>14 DEF Crash, NoSession
  <2>2. CASE UNCHANGED <<backups, issued>>
    BY <1>0, <1>14, <2>1, <2>2 DEF Crash
  <2>3. CASE backups' = WithBackup(Torn) /\ issued' = Min({issued, Keep}) + 1
    <3>1. NamesOK'
      <4>1. CASE issued <= Keep
        BY <1>14, <2>3, <4>1, WrittenInOrder DEF Crash
      <4>2. CASE ~(issued <= Keep)
        BY <2>3, <4>2, FullAtKeep DEF BackupsOK, NamesOK
      <4> QED
        BY <4>1, <4>2
    <3> QED
      BY <2>1, <3>1 DEF CopyIsNewest, BackupKept
  <2> QED
    BY <1>14, <2>2, <2>3 DEF Crash, NameOne
<1>15. ASSUME NEW s \in 0..Seconds, SetClock(s) PROVE Kept'
  <2>1. s \in Nat /\ second' = s /\ UNCHANGED <<backups, session, file>>
    BY <1>15, StoreConstants DEF SetClock
  <2>2. \A x \in DOMAIN backups : x[1] \in Nat
    BY StoreConstants DEF BackupsOK, Name
  <2>3. NamesOK'
    <3>1. CASE \A name \in DOMAIN backups : name[1] < s
      <4>1. issued' = 0
        BY <1>15, <3>1 DEF SetClock
      <4> QED
        BY <2>1, <2>2, <3>1, <4>1, StoreConstants DEF NamesOK
    <3>2. CASE ~ \A name \in DOMAIN backups : name[1] < s
      <4>1. issued' = Keep + 1
        BY <1>15, <3>2 DEF SetClock
      <4> QED
        BY <4>1, StoreConstants DEF NamesOK
    <3> QED
      BY <3>1, <3>2
  <2> QED
    BY <1>a, <2>1, <2>3
<1>16. CASE UNCHANGED vars
  BY <1>0, <1>16 DEF vars
<1> QED
  BY <1>1, <1>2, <1>3, <1>4, <1>5, <1>6, <1>7, <1>8, <1>9, <1>10, <1>11,
     <1>12, <1>13, <1>14, <1>15, <1>16 DEF Next, Save

(* README.md:917: "Before every save the current file is copied": from the *)
(* copy to the rename what is about to be overwritten is in a backup, for  *)
(* any admins, crashes, restores and moves of the clock, in every save     *)
(* whose copy has the latest name and whose file nobody edits meanwhile.   *)
THEOREM BackupsAreKept == Spec => []BackupKept
<1>1. Init => Kept
  BY KeptInit
<1>2. Inv /\ BackupsOK /\ Kept /\ [Next]_vars => Kept'
  BY KeptNext
<1>3. Kept => BackupKept
  BY DEF Kept
<1> QED
  BY <1>1, <1>2, <1>3, StoreAlways, PTL DEF Spec
=============================================================================
