-------------------------- MODULE AllowListProofs --------------------------
(***************************************************************************)
(* Proofs about AllowList, for any set of ids and any number of callers.   *)
(***************************************************************************)
EXTENDS AllowList, FiniteSetTheorems, TLAPS

\* A listing of a set of ids is a sequence of ids.
LEMMA ListingIsSeq ==
    ASSUME NEW S \in SUBSET Node, NEW s \in Listings(S)
    PROVE  s \in Seq(Node) /\ Range(s) = S
<1>1. IsFiniteSet(S)
  BY FiniteNodes, FS_Subset
<1>2. Cardinality(S) \in Nat
  BY <1>1, FS_CardinalityType
<1>3. s \in [1..Cardinality(S) -> S] /\ Range(s) = S
  BY DEF Listings
<1>4. s \in [1..Cardinality(S) -> Node]
  BY <1>3
<1> QED
  BY <1>2, <1>3, <1>4

\* What a sequence of ids lists are ids.
LEMMA RangeOfIds ==
    ASSUME NEW s \in Seq(Node)
    PROVE  Range(s) \in SUBSET Node
  BY DEF Range

\* Writing a sequence of ids at the start of another gives one.
LEMMA OverwriteIsSeq ==
    ASSUME NEW f \in Seq(Node), NEW s \in Seq(Node)
    PROVE  Overwrite(f, s) \in Seq(Node)
<1>1. Len(s) + 1 \in Nat /\ Len(f) \in Nat
  OBVIOUS
<1>2. SubSeq(f, Len(s) + 1, Len(f)) \in Seq(Node)
  BY <1>1
<1> QED
  BY <1>2 DEF Overwrite

\* Writing into a truncated file leaves what is written.
LEMMA OverwriteEmpty ==
    ASSUME NEW s \in Seq(Node)
    PROVE  Overwrite(<< >>, s) = s
<1>1. Len(<< >>) = 0 /\ << >> \in Seq(Node) /\ Len(s) + 1 \in Nat
  OBVIOUS
<1>2. SubSeq(<< >>, Len(s) + 1, 0) = << >>
  BY <1>1
<1> QED
  BY <1>1, <1>2 DEF Overwrite
----------------------------------------------------------------------------
\* The initial list, file and callers are well typed.
LEMMA AclTypeInit == AclInit => AclTypeOK
<1> SUFFICES ASSUME AclInit PROVE AclTypeOK
  OBVIOUS
<1>1. PICK S \in SUBSET Node : file \in Listings(S)
  BY DEF AclInit
<1>2. file \in Seq(Node) /\ Range(file) = S
  BY <1>1, ListingIsSeq
<1>3. Idle \in Persisting
  <2>1. << >> \in Seq(Node)
    OBVIOUS
  <2> QED
    BY <2>1 DEF Idle, Persisting
<1> QED
  BY <1>1, <1>2, <1>3 DEF AclInit, AclTypeOK

\* The locked part of Add and Remove keeps the types.
LEMMA ChangeType ==
    ASSUME AclTypeOK, NEW w \in Worker, NEW ids \in SUBSET Node, Change(w, ids)
    PROVE  AclTypeOK'
<1>1. PICK s \in Listings(ids) :
        persisting' = [persisting EXCEPT ![w] = [stage |-> "snapshot", ids |-> s]]
  BY DEF Change
<1>2. s \in Seq(Node)
  BY ListingIsSeq
<1>3. [stage |-> "snapshot", ids |-> s] \in Persisting
  BY <1>2 DEF Persisting
<1>4. persisting' \in [Worker -> Persisting]
  BY <1>1, <1>3 DEF AclTypeOK
<1>5. solo' \in BOOLEAN
  BY DEF Change, NoneWriting
<1> QED
  BY <1>4, <1>5 DEF Change, AclTypeOK

\* So does every step of persist.
LEMMA PersistType ==
    ASSUME AclTypeOK, NEW w \in Worker, Persist(w)
    PROVE  AclTypeOK'
<1>0. << >> \in Seq(Node) /\ Idle \in Persisting /\ persisting[w] \in Persisting
  <2>1. << >> \in Seq(Node)
    OBVIOUS
  <2> QED
    BY <2>1 DEF Idle, Persisting, AclTypeOK
<1>1. CASE PersistOpen(w)
  <2>1. [persisting[w] EXCEPT !.stage = "open"] \in Persisting
    BY <1>0 DEF Persisting
  <2> QED
    BY <1>0, <1>1, <2>1 DEF PersistOpen, AclTypeOK
<1>2. CASE PersistWrite(w)
  <2>1. file' \in Seq(Node)
    BY <1>0, <1>2, OverwriteIsSeq DEF PersistWrite, AclTypeOK, Persisting
  <2> QED
    BY <1>0, <1>2, <2>1 DEF PersistWrite, AclTypeOK
<1>3. CASE PersistError(w)
  BY <1>0, <1>3 DEF PersistError, AclTypeOK
<1> QED
  BY <1>1, <1>2, <1>3 DEF Persist

\* And loading the file again.
LEMMA ReloadType ==
    ASSUME AclTypeOK, Reload
    PROVE  AclTypeOK'
<1>1. Idle \in Persisting
  <2>1. << >> \in Seq(Node)
    OBVIOUS
  <2> QED
    BY <2>1 DEF Idle, Persisting
<1>2. Range(file) \in SUBSET Node
  BY RangeOfIds DEF AclTypeOK
<1> QED
  BY <1>1, <1>2 DEF Reload, AclTypeOK

\* Every step keeps the types.
LEMMA AclTypeStep == AclTypeOK /\ [AclNext]_aclVars => AclTypeOK'
<1> SUFFICES ASSUME AclTypeOK, [AclNext]_aclVars PROVE AclTypeOK'
  OBVIOUS
<1>1. ASSUME NEW w \in Worker, NEW id \in Node, Add(w, id) \/ Remove(w, id)
      PROVE  AclTypeOK'
  <2>1. allow \cup {id} \in SUBSET Node /\ allow \ {id} \in SUBSET Node
    BY DEF AclTypeOK
  <2> QED
    BY <1>1, <2>1, ChangeType DEF Add, Remove
<1>2. CASE UNCHANGED aclVars
  BY <1>2 DEF aclVars, AclTypeOK
<1> QED
  BY <1>1, <1>2, PersistType, ReloadType DEF AclNext

\* The list stays a set of peer ids and the file a list of them, whatever the
\* callers of Add and Remove do at the same time (allow.go:52-97).
THEOREM AclTypeCorrect == AclSpec => []AclTypeOK
  BY AclTypeInit, AclTypeStep, PTL DEF AclSpec
----------------------------------------------------------------------------
\* While solo holds at most one caller is inside Add or Remove; its copy is the
\* list, and once it has truncated the file, the file is empty.
SoloCaller ==
    \A w \in Worker : persisting[w].stage # "idle" =>
        /\ \A v \in Worker : v # w => persisting[v].stage = "idle"
        /\ Range(persisting[w].ids) = allow
        /\ persisting[w].stage = "open" => file = << >>

\* The inductive strengthening of SoloWriteMatchesList.
SoloInv == AclTypeOK /\ (solo => SoloCaller) /\ SoloWriteMatchesList

\* Add or Remove that starts alone makes its caller the only one.
LEMMA ChangeSolo ==
    ASSUME SoloInv, NEW w \in Worker, NEW ids \in SUBSET Node, Change(w, ids)
    PROVE  (solo' => SoloCaller') /\ SoloWriteMatchesList'
<1>1. PICK s \in Listings(ids) :
        persisting' = [persisting EXCEPT ![w] = [stage |-> "snapshot", ids |-> s]]
  BY DEF Change
<1>2. Range(s) = ids
  BY ListingIsSeq
<1>3. /\ persisting'[w] = [stage |-> "snapshot", ids |-> s]
      /\ \A v \in Worker : v # w => persisting'[v] = persisting[v]
  BY <1>1 DEF SoloInv, AclTypeOK
<1>4. ASSUME solo' PROVE SoloCaller'
  <2>1. NoneWriting /\ allow' = ids
    BY <1>4 DEF Change
  <2>2. \A v \in Worker : v # w => persisting'[v].stage = "idle"
    BY <1>3, <2>1 DEF NoneWriting
  <2>3. persisting'[w].stage = "snapshot" /\ Range(persisting'[w].ids) = allow'
    BY <1>2, <1>3, <2>1
  <2> QED
    BY <2>2, <2>3 DEF SoloCaller
<1>5. ~NoneWriting'
  BY <1>3 DEF NoneWriting
<1> QED
  BY <1>4, <1>5 DEF SoloWriteMatchesList

\* The steps of persist keep it so, and the last one writes the list.
LEMMA PersistSolo ==
    ASSUME SoloInv, NEW w \in Worker, Persist(w)
    PROVE  (solo' => SoloCaller') /\ SoloWriteMatchesList'
<1>0. persisting \in [Worker -> Persisting] /\ persisting[w].ids \in Seq(Node)
  BY DEF SoloInv, AclTypeOK, Persisting
<1>1. CASE PersistOpen(w)
  <2>1. /\ persisting'[w].stage = "open" /\ persisting'[w].ids = persisting[w].ids
        /\ \A v \in Worker : v # w => persisting'[v] = persisting[v]
    BY <1>0, <1>1 DEF PersistOpen, Persisting
  <2>2. ~NoneWriting'
    BY <2>1 DEF NoneWriting
  <2>3. solo' => SoloCaller'
    BY <1>1, <2>1 DEF PersistOpen, SoloCaller, SoloInv
  <2> QED
    BY <2>2, <2>3 DEF SoloWriteMatchesList
<1>2. CASE PersistWrite(w)
  <2>1. /\ persisting'[w].stage = "idle"
        /\ \A v \in Worker : v # w => persisting'[v] = persisting[v]
    BY <1>0, <1>2 DEF PersistWrite, Idle
  <2>2. ASSUME solo'
        PROVE  SoloCaller' /\ Range(file') = allow'
    <3>1. solo /\ SoloCaller /\ persisting[w].stage = "open"
      BY <1>2, <2>2 DEF PersistWrite, SoloInv
    <3>2. /\ \A v \in Worker : persisting'[v].stage = "idle"
          /\ Range(persisting[w].ids) = allow /\ file = << >>
      BY <2>1, <3>1 DEF SoloCaller
    <3>3. file' = persisting[w].ids
      BY <1>0, <1>2, <3>2, OverwriteEmpty DEF PersistWrite
    <3> QED
      BY <1>2, <3>2, <3>3 DEF PersistWrite, SoloCaller
  <2> QED
    BY <2>2 DEF SoloWriteMatchesList
<1>3. CASE PersistError(w)
  BY <1>3 DEF PersistError, SoloWriteMatchesList
<1> QED
  BY <1>1, <1>2, <1>3 DEF Persist

\* Every step keeps the strengthened invariant.
LEMMA SoloStep == SoloInv /\ [AclNext]_aclVars => SoloInv'
<1> SUFFICES ASSUME SoloInv, [AclNext]_aclVars PROVE SoloInv'
  OBVIOUS
<1>0. AclTypeOK'
  BY AclTypeStep DEF SoloInv
<1>1. ASSUME NEW w \in Worker, NEW id \in Node, Add(w, id) \/ Remove(w, id)
      PROVE  (solo' => SoloCaller') /\ SoloWriteMatchesList'
  <2>1. allow \cup {id} \in SUBSET Node /\ allow \ {id} \in SUBSET Node
    BY DEF SoloInv, AclTypeOK
  <2> QED
    BY <1>1, <2>1, ChangeSolo DEF Add, Remove
<1>2. CASE Reload
  BY <1>0, <1>2 DEF Reload, Idle, SoloCaller, SoloWriteMatchesList, SoloInv
<1>3. CASE UNCHANGED aclVars
  BY <1>0, <1>3 DEF aclVars, SoloInv, SoloCaller, SoloWriteMatchesList, NoneWriting
<1> QED
  BY <1>0, <1>1, <1>2, <1>3, PersistSolo DEF AclNext, SoloInv

\* The invariant holds at the start, when the file has just been loaded.
LEMMA SoloAtInit == AclInit => SoloInv
  BY AclTypeInit DEF AclInit, SoloInv, SoloCaller, SoloWriteMatchesList, Idle

\* After a call of Add or Remove that no other call overlapped, the file holds
\* exactly the list (allow.go:52-78, :90-97), for any number of callers.
THEOREM SoloWriteCorrect == AclSpec => []SoloWriteMatchesList
<1>1. SoloInv => SoloWriteMatchesList
  BY DEF SoloInv
<1> QED
  BY <1>1, SoloAtInit, SoloStep, PTL DEF AclSpec

\* A restart between calls then loads the list that was in memory.
THEOREM RestartCorrect == AclSpec => RestartKeepsList
<1>1. SoloInv => [(Reload /\ solo /\ NoneWriting) => allow' = allow]_aclVars
  BY DEF SoloInv, SoloWriteMatchesList, Reload
<1> QED
  BY <1>1, SoloAtInit, SoloStep, PTL DEF AclSpec, RestartKeepsList
----------------------------------------------------------------------------
\* The ids that are on the list, in the file or in a copy about to be written.
Held == allow \cup Range(file) \cup UNION {Range(persisting[w].ids) : w \in Worker}

\* Writing over a file leaves only lines of the file and lines that were written.
LEMMA OverwriteRange ==
    ASSUME NEW f \in Seq(Node), NEW s \in Seq(Node)
    PROVE  Range(Overwrite(f, s)) \subseteq Range(f) \cup Range(s)
<1> SUFFICES ASSUME NEW i \in DOMAIN Overwrite(f, s)
             PROVE  Overwrite(f, s)[i] \in Range(f) \cup Range(s)
  BY DEF Range
<1> DEFINE t == SubSeq(f, Len(s) + 1, Len(f))
<1>1. t \in Seq(Node) /\ Len(s) \in Nat /\ Len(f) \in Nat
  OBVIOUS
<1>2. Overwrite(f, s) = s \o t
  BY DEF Overwrite
<1>3. CASE i <= Len(s)
  <2>1. i \in DOMAIN s /\ (s \o t)[i] = s[i]
    BY <1>1, <1>2, <1>3
  <2> QED
    BY <1>2, <2>1 DEF Range
<1>4. CASE ~(i <= Len(s))
  <2>1. i \in 1..(Len(s) + Len(t)) /\ (s \o t)[i] = t[i - Len(s)] /\ i - Len(s) \in 1..Len(t)
    BY <1>1, <1>2, <1>4
  <2>2. i \in DOMAIN f /\ t[i - Len(s)] = f[i]
    BY <1>1, <2>1
  <2> QED
    BY <1>2, <2>1, <2>2 DEF Range
<1> QED
  BY <1>3, <1>4

\* A step of Add, Remove or persist, of any caller, and a reload bring no id
\* into the file or a copy that was in neither of them nor on the list.
LEMMA NothingInvented == AclTypeOK /\ [AclNext]_aclVars => Held' \subseteq Held \cup allow'
<1> SUFFICES ASSUME AclTypeOK, [AclNext]_aclVars PROVE Held' \subseteq Held \cup allow'
  OBVIOUS
<1>0. Range(<< >>) = {} /\ Idle.ids = << >> /\ DOMAIN persisting = Worker
  BY DEF Range, Idle, AclTypeOK
<1>1. ASSUME NEW w \in Worker, NEW ids \in SUBSET Node, Change(w, ids)
      PROVE  Held' \subseteq Held \cup allow'
  <2>1. PICK s \in Listings(ids) :
          persisting' = [persisting EXCEPT ![w] = [stage |-> "snapshot", ids |-> s]]
    BY <1>1 DEF Change
  <2>2. Range(s) = ids /\ allow' = ids /\ file' = file
    BY <1>1, <2>1, ListingIsSeq DEF Change
  <2>3. ASSUME NEW v \in Worker PROVE Range(persisting'[v].ids) \subseteq Held \cup allow'
    <3>1. CASE v = w
      BY <1>0, <2>1, <2>2, <3>1
    <3>2. CASE v # w
      BY <1>0, <2>1, <3>2 DEF Held
    <3> QED
      BY <3>1, <3>2
  <2> QED
    BY <2>2, <2>3 DEF Held
<1>2. ASSUME NEW w \in Worker, Persist(w)
      PROVE  Held' \subseteq Held \cup allow'
  <2>1. ASSUME NEW v \in Worker PROVE Range(persisting'[v].ids) \subseteq Held
    <3>1. persisting'[v] = persisting[v] \/ persisting'[v].ids \in {persisting[v].ids, << >>}
      BY <1>0, <1>2 DEF Persist, PersistOpen, PersistWrite, PersistError, AclTypeOK, Persisting
    <3> QED
      BY <1>0, <3>1 DEF Held
  <2>2. Range(file') \subseteq Held
    <3>1. CASE file' = file \/ file' = << >>
      BY <1>0, <3>1 DEF Held
    <3>2. CASE file' = Overwrite(file, persisting[w].ids)
      <4>1. file \in Seq(Node) /\ persisting[w].ids \in Seq(Node)
        BY DEF AclTypeOK, Persisting
      <4> QED
        BY <3>2, <4>1, OverwriteRange DEF Held
    <3> QED
      BY <1>2, <3>1, <3>2 DEF Persist, PersistOpen, PersistWrite, PersistError
  <2> QED
    BY <2>1, <2>2 DEF Held
<1>3. CASE Reload
  BY <1>0, <1>3 DEF Reload, Held
<1>4. CASE UNCHANGED aclVars
  BY <1>4 DEF aclVars, Held
<1>5. ASSUME NEW w \in Worker, NEW id \in Node, Add(w, id) \/ Remove(w, id)
      PROVE  Held' \subseteq Held \cup allow'
  <2>1. allow \cup {id} \in SUBSET Node /\ allow \ {id} \in SUBSET Node
    BY DEF AclTypeOK
  <2> QED
    BY <1>1, <1>5, <2>1 DEF Add, Remove
<1> QED
  BY <1>2, <1>3, <1>4, <1>5 DEF AclNext
============================================================================
