----------------------------- MODULE AllowList -----------------------------
(***************************************************************************)
(* The peer allow list of the admin server (pkg/admin/allow.go): a set of  *)
(* peer ids guarded by a lock, and a file that is rewritten after every    *)
(* change.  The lock covers the change and the copy taken of the set, not  *)
(* the write of that copy (allow.go:53-63), so two callers may write their *)
(* copies in either order, or at the same time.                            *)
(*                                                                         *)
(* The file is a sequence of lines, one id per line.  os.WriteFile opens   *)
(* with O_TRUNC and then writes at offset 0 of its own descriptor: a write *)
(* that lands on a file another caller has filled meanwhile replaces its   *)
(* first lines and leaves the others.  Peer ids have one length, so lines  *)
(* line up.                                                                *)
(***************************************************************************)
EXTENDS Naturals, Sequences, FiniteSets, Functions

CONSTANTS
    Node,       \* peer ids
    Worker,     \* goroutines that call Add and Remove
    Faults      \* whether the disk may fail

ASSUME FiniteNodes == IsFiniteSet(Node)

VARIABLES
    allow,      \* AllowList.allow
    file,       \* the lines of the file at AllowList.path
    persisting, \* per goroutine, how far its call of persist is
    solo        \* history: the file was last written by a call that ran alone

aclVars == <<allow, file, persisting, solo>>

Idle == [stage |-> "idle", ids |-> <<>>]

Persisting == [stage : {"idle", "snapshot", "open"}, ids : Seq(Node)]

NoneWriting == \A w \in Worker : persisting[w].stage = "idle"

\* The orders in which ranging over the map may list its keys.
Listings(S) == { s \in [1..Cardinality(S) -> S] : Range(s) = S }

\* What a file that holds f holds once s is written at its start.
Overwrite(f, s) == s \o SubSeq(f, Len(s) + 1, Len(f))
----------------------------------------------------------------------------
AclInit ==
    /\ file \in UNION { Listings(S) : S \in SUBSET Node }
    /\ allow = Range(file)
    /\ persisting = [w \in Worker |-> Idle]
    /\ solo = TRUE

\* Mutant: the copy is taken before the change.
ChangeLate(w, ids) ==
    /\ persisting[w].stage = "idle"
    /\ allow' = ids
    /\ \E s \in Listings(allow) :
          persisting' = [persisting EXCEPT ![w] = [stage |-> "snapshot", ids |-> s]]
    /\ solo' = NoneWriting
    /\ UNCHANGED file

\* Mutant: the change goes to the file and not to the set.
ChangeFileOnly(w, ids) ==
    /\ persisting[w].stage = "idle"
    /\ \E s \in Listings(ids) :
          persisting' = [persisting EXCEPT ![w] = [stage |-> "snapshot", ids |-> s]]
    /\ solo' = NoneWriting
    /\ UNCHANGED <<allow, file>>

\* The locked part of Add and Remove: change the set and copy it.
Change(w, ids) ==
    /\ persisting[w].stage = "idle"
    /\ allow' = ids
    /\ \E s \in Listings(ids) :
          persisting' = [persisting EXCEPT ![w] = [stage |-> "snapshot", ids |-> s]]
    /\ solo' = NoneWriting
    /\ UNCHANGED file

Add(w, id) == Change(w, allow \cup {id})

Remove(w, id) == Change(w, allow \ {id})

\* Mutant: the file is opened without O_TRUNC.
OpenNoTrunc(w) ==
    /\ persisting[w].stage = "snapshot"
    /\ persisting' = [persisting EXCEPT ![w].stage = "open"]
    /\ UNCHANGED <<allow, file, solo>>

\* os.WriteFile opens the file with O_TRUNC ...
PersistOpen(w) ==
    /\ persisting[w].stage = "snapshot"
    /\ file' = <<>>
    /\ persisting' = [persisting EXCEPT ![w].stage = "open"]
    /\ UNCHANGED <<allow, solo>>

\* ... and writes the copy from offset 0.
PersistWrite(w) ==
    /\ persisting[w].stage = "open"
    /\ file' = Overwrite(file, persisting[w].ids)
    /\ persisting' = [persisting EXCEPT ![w] = Idle]
    /\ UNCHANGED <<allow, solo>>

\* The open or the write fails; Add and Remove drop the error.
PersistError(w) ==
    /\ Faults
    /\ persisting[w].stage # "idle"
    /\ persisting' = [persisting EXCEPT ![w] = Idle]
    /\ solo' = FALSE
    /\ UNCHANGED <<allow, file>>

\* The process stops anywhere and NewAllowList loads the file again.
Reload ==
    /\ allow' = Range(file)
    /\ persisting' = [w \in Worker |-> Idle]
    /\ solo' = TRUE
    /\ UNCHANGED file

Persist(w) == PersistOpen(w) \/ PersistWrite(w) \/ PersistError(w)

AclNext ==
    \/ \E w \in Worker : \E id \in Node : Add(w, id) \/ Remove(w, id)
    \/ \E w \in Worker : Persist(w)
    \/ Reload

AclSpec == AclInit /\ [][AclNext]_aclVars
----------------------------------------------------------------------------
\* The list is a set of ids, the file a sequence of them.
AclTypeOK ==
    /\ allow \in SUBSET Node
    /\ file \in Seq(Node)
    /\ persisting \in [Worker -> Persisting]
    /\ solo \in BOOLEAN

\* Add and Remove leave the file equal to the list when nobody else is
\* inside Add or Remove meanwhile, whatever earlier calls left in the file:
\* a call that runs alone repairs what overlapping or failed writes broke.
SoloWriteMatchesList == (solo /\ NoneWriting) => Range(file) = allow

\* A restart between calls loses no id and brings none back, as long as the
\* last call of Add or Remove ran alone (NewAllowList reads what persist wrote).
RestartKeepsList == [][(Reload /\ solo /\ NoneWriting) => allow' = allow]_aclVars

\* allow_test.go:113 and :119: once Add or Remove has returned, the file
\* holds exactly the list.
FileMatchesList == NoneWriting => Range(file) = allow
============================================================================
