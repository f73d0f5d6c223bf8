-------------------------- MODULE RequisitesProofs --------------------------
(***************************************************************************)
(* Proofs about Requisites, for any groups, requisites, numbers, caps and  *)
(* number of calls in progress.                                            *)
(*                                                                         *)
(* Beside the three properties the invariant has what they rest on.        *)
(* Seen: a call that has seen a group on will find it on, or its requisite *)
(* among raced.  Locks: one release at a time has a requisite locked, and  *)
(* one that is going to switch it on found it off at a cap.  Reasons: a    *)
(* requisite is off at a cap only if it was switched on by hand, or its    *)
(* reason overwritten.                                                     *)
(***************************************************************************)
EXTENDS Requisites, TLAPS

Seen ==
    \A p \in Handlers, r \in Requisites :
        SawGroupOn(p, r) /\ row[r] # Deleted => GroupOn(GroupOf[r]) \/ r \in raced

Locks ==
    /\ \A p \in Handlers :
         job[p].op = "releasing" =>
            /\ Exists(job[p].r)
            /\ job[p].active => /\ row[job[p].r].reason \in LimitReasons
                                /\ ~row[job[p].r].active
    /\ \A p, q \in Handlers :
         job[p].op = "releasing" /\ job[q].op = "releasing" /\ job[p].r = job[q].r
            => p = q

Reasons ==
    \A r \in Requisites :
        Exists(r) /\ row[r].reason \in LimitReasons => r \in wanted \cup overwritten

LiveGroups == /\ ActiveInLiveGroup
              /\ \A g \in longOff : group[g].exists /\ ~group[g].active

Inv == /\ TypeOK
       /\ OneActivePerNumber
       /\ LiveGroups
       /\ Seen
       /\ Locks
       /\ OffStaysOff
       /\ Reasons

-----------------------------------------------------------------------------
(* Rows *)

LEMMA RowIsNotGone ==
    ASSUME NEW w \in RequisiteRow
    PROVE  w \notin {NoRow, Deleted}
BY DEF RequisiteRow, NoRow, Deleted, LimitReasons

LEMMA ExistingRow ==
    ASSUME TypeOK, NEW r \in Requisites
    PROVE  /\ Exists(r) => row[r] \in RequisiteRow
           /\ row[r] \in RequisiteRow => Exists(r)
BY RowIsNotGone DEF TypeOK, Exists

LEMMA NewRowType ==
    ASSUME ConstantsAssumption, NEW limit \in Limits, NEW active \in BOOLEAN
    PROVE  /\ NewRow(limit, active) \in RequisiteRow
           /\ NewRow(limit, active).active = active
           /\ NewRow(limit, active).reason = "NONE"
BY DEF ConstantsAssumption, NewRow, RequisiteRow

LEMMA ReserveType ==
    ASSUME NEW w \in RequisiteRow
    PROVE  /\ Reserve(w, 1) \in RequisiteRow
           /\ Reserve(w, 1).active => w.active
           /\ Reserve(w, 1).reason \in LimitReasons \/ Reserve(w, 1).reason = w.reason
<1> DEFINE used == [w EXCEPT !.ops = @ + 1, !.amount = @ + 1]
           off == [used EXCEPT !.active = FALSE,
                               !.reason = IF used.amount >= used.limitAmount
                                          THEN "LIMIT_AMOUNT" ELSE "LIMIT_TX"]
<1>1. used \in RequisiteRow /\ used.active = w.active /\ used.reason = w.reason
  <2>1. w.ops + 1 \in Nat /\ w.amount + 1 \in Nat
    BY DEF RequisiteRow
  <2>2. used \in RequisiteRow
    BY <2>1 DEF RequisiteRow
  <2>3. used.active = w.active /\ used.reason = w.reason
    BY DEF RequisiteRow
  <2> QED BY <2>2, <2>3
<1>2. off \in RequisiteRow /\ ~off.active /\ off.reason \in LimitReasons
  <2> HIDE DEF used
  <2> QED BY <1>1 DEF RequisiteRow, LimitReasons
<1>3. Reserve(w, 1) = used \/ Reserve(w, 1) = off
  BY DEF Reserve
<1> QED BY <1>1, <1>2, <1>3

LEMMA ReleasedType ==
    ASSUME NEW r \in Requisites, row[r] \in RequisiteRow, NEW seen \in Nat
    PROVE  /\ Released(r, seen) \in RequisiteRow
           /\ Released(r, seen).active = row[r].active
           /\ Released(r, seen).reason = row[r].reason
<1>1. AtLeastZero(seen - 1) \in Nat
  BY DEF AtLeastZero
<1> QED BY <1>1 DEF Released, RequisiteRow

-----------------------------------------------------------------------------
(* Calls *)

LEMMA JobKind ==
    ASSUME TypeOK, NEW p \in Handlers
    PROVE  /\ job[p] \in Job
           /\ job[p].op = "create" => job[p] \in CreateJob
           /\ job[p].op = "activate" => job[p] \in ActivateJob
           /\ job[p].op = "limit" => job[p] \in LimitJob
           /\ job[p].op = "upload" => job[p] \in UploadJob
           /\ job[p].op = "release" => job[p] \in ReleaseJob
           /\ job[p].op = "read" => job[p] \in ReadJob
           /\ job[p].op = "releasing" => job[p] \in ReleasingJob
<1>1. job[p] \in Job
  BY DEF TypeOK
<1> QED BY <1>1 DEF Job, Idle, CreateJob, ActivateJob, LimitJob, UploadJob, ReleaseJob,
                    ReadJob, ReleasingJob

\* A call goes on, and locks no row.
LEMMA CallStep ==
    ASSUME Inv, NEW p \in Handlers, NEW j \in Job, Set(p, j),
           j.op # "releasing",
           \A r \in Requisites :
             j.op \in {"create", "activate"} /\ j.r = r /\ (j.op # "activate" => j.active)
               => GroupOn(GroupOf[r]),
           UNCHANGED <<group, longOff, row, history>>,
           held' \in [Requisites -> Nat], canceled' \in [Requisites -> Nat]
    PROVE  Inv'
<1> USE DEF Inv, history
<1>1. \A q \in Handlers : job'[q] = IF q = p THEN j ELSE job[q]
  BY DEF TypeOK, Set
<1>2. TypeOK'
  BY DEF TypeOK, Set
<1>3. OneActivePerNumber' /\ LiveGroups' /\ OffStaysOff' /\ Reasons'
  BY DEF OneActivePerNumber, LiveGroups, ActiveInLiveGroup, GroupOn, OffStaysOff, Reasons,
         Active, Exists
<1>4. Seen'
  <2> SUFFICES ASSUME NEW q \in Handlers, NEW r \in Requisites,
                      SawGroupOn(q, r)', row[r] # Deleted
               PROVE  GroupOn(GroupOf[r]) \/ r \in raced
    BY DEF Seen, GroupOn
  <2>1. CASE q = p
    BY <1>1, <2>1 DEF SawGroupOn
  <2>2. CASE q # p
    BY <1>1, <2>2 DEF SawGroupOn, Seen
  <2> QED BY <2>1, <2>2
<1>5. Locks'
  BY <1>1 DEF Locks, Exists
<1> QED BY <1>2, <1>3, <1>4, <1>5

\* One row is written, and at most one call ends.
LEMMA RowStep ==
    ASSUME Inv, NEW r \in Requisites, NEW w \in RequisiteRow,
           row[r] # Deleted,
           row' = [row EXCEPT ![r] = w],
           UNCHANGED <<group, longOff, raced>>,
           job' \in [Handlers -> Job],
           \A q \in Handlers : job'[q] = job[q] \/ job'[q] = Idle,
           \A q \in Handlers : job'[q].op = "releasing" => job'[q].r # r,
           held' \in [Requisites -> Nat], canceled' \in [Requisites -> Nat],
           wanted' \subseteq Requisites, overwritten' \subseteq Requisites,
           \A s \in Requisites \ {r} : /\ s \in wanted' <=> s \in wanted
                                       /\ s \in overwritten' <=> s \in overwritten,
           w.active => /\ Active(r) \/ IndexAllows(r)
                       /\ GroupOn(GroupOf[r]) \/ r \in raced,
           w.active \/ w.reason \in LimitReasons => r \in (wanted \cup overwritten)'
    PROVE  Inv'
<1> USE DEF Inv
<1>1. /\ \A s \in Requisites : row'[s] = IF s = r THEN w ELSE row[s]
      /\ Exists(r)'
      /\ \A s \in Requisites \ {r} : Exists(s)' <=> Exists(s)
  BY RowIsNotGone DEF TypeOK, Exists
<1>2. TypeOK'
  BY DEF TypeOK
<1>3. OneActivePerNumber'
  <2> SUFFICES ASSUME NEW s \in Requisites, NEW t \in Requisites, s # t,
                      Active(s)', Active(t)'
               PROVE  Number[s] # Number[t]
    BY DEF OneActivePerNumber
  <2>1. CASE s # r /\ t # r
    BY <1>1, <2>1 DEF OneActivePerNumber, Active
  <2>2. CASE s = r
    BY <1>1, <2>2 DEF OneActivePerNumber, Active, IndexAllows, NumberIsFree
  <2>3. CASE t = r
    BY <1>1, <2>3 DEF OneActivePerNumber, Active, IndexAllows, NumberIsFree
  <2> QED BY <2>1, <2>2, <2>3
<1>4. LiveGroups'
  BY <1>1 DEF LiveGroups, ActiveInLiveGroup, GroupOn, Active
<1>5. Seen'
  <2> SUFFICES ASSUME NEW q \in Handlers, NEW s \in Requisites,
                      SawGroupOn(q, s)', row'[s] # Deleted
               PROVE  GroupOn(GroupOf[s]) \/ s \in raced
    BY DEF Seen, GroupOn
  <2>1. row[s] # Deleted
    BY <1>1
  <2>2. SawGroupOn(q, s)
    BY DEF SawGroupOn, Idle
  <2> QED BY <2>1, <2>2 DEF Seen
<1>6. Locks'
  <2>1. \A q \in Handlers : job'[q].op = "releasing" =>
            /\ job'[q] = job[q]
            /\ job[q].r \in Requisites \ {r}
            /\ row'[job[q].r] = row[job[q].r]
            /\ Exists(job[q].r)' <=> Exists(job[q].r)
    <3> SUFFICES ASSUME NEW q \in Handlers, job'[q].op = "releasing"
                 PROVE  /\ job'[q] = job[q]
                        /\ job[q].r \in Requisites \ {r}
                        /\ row'[job[q].r] = row[job[q].r]
                        /\ Exists(job[q].r)' <=> Exists(job[q].r)
      OBVIOUS
    <3>1. job'[q] = job[q]
      BY DEF Idle
    <3>2. job[q] \in ReleasingJob
      BY <3>1, JobKind
    <3>3. job[q].r \in Requisites \ {r}
      BY <3>1, <3>2 DEF ReleasingJob
    <3> QED BY <3>1, <3>3, <1>1
  <2> QED BY <2>1 DEF Locks
<1>7. OffStaysOff' /\ Reasons'
  <2>1. \A s \in Requisites \ {r} : Active(s)' <=> Active(s)
    BY <1>1 DEF Active
  <2>2. OffStaysOff'
    BY <1>1, <2>1 DEF OffStaysOff, Active
  <2>3. Reasons'
    BY <1>1 DEF Reasons
  <2> QED BY <2>2, <2>3
<1> QED BY <1>2, <1>3, <1>4, <1>5, <1>6, <1>7

\* An order takes a slot, and the call that asked for it may end.
LEMMA SlotStep ==
    ASSUME Inv, NEW r \in Requisites, TakeSlot(r), canceled' \in [Requisites -> Nat],
           job' \in [Handlers -> Job],
           \A q \in Handlers : job'[q] = job[q] \/ job'[q] = Idle
    PROVE  Inv'
<1> DEFINE w == Reserve(row[r], 1)
<1>1. /\ Exists(r) /\ row[r] \in RequisiteRow
      /\ row[r] # Deleted
  BY ExistingRow DEF Inv, TakeSlot, Writable, Exists
<1>2. /\ w \in RequisiteRow
      /\ w.active => row[r].active
      /\ w.reason \in LimitReasons \/ w.reason = row[r].reason
  BY <1>1, ReserveType
<1>3. /\ row' = [row EXCEPT ![r] = w]
      /\ row'[r] = w
  BY DEF TakeSlot, Inv, TypeOK
<1>4. held' \in [Requisites -> Nat]
  BY DEF TakeSlot, Inv, TypeOK
<1>5. \A q \in Handlers : job'[q].op = "releasing" => job'[q].r # r
  BY DEF TakeSlot, Writable, Locked, Idle
<1> HIDE DEF w
<1>6. overwritten' = overwritten \cup (IF w.reason \in LimitReasons THEN {r} \ wanted ELSE {})
  BY <1>3 DEF TakeSlot
<1>7. /\ wanted' = wanted /\ wanted' \subseteq Requisites
      /\ overwritten' \subseteq Requisites
      /\ \A s \in Requisites \ {r} : s \in overwritten' <=> s \in overwritten
  BY <1>6 DEF TakeSlot, Inv, TypeOK
<1>8. w.active => /\ Active(r)
                  /\ GroupOn(GroupOf[r]) \/ r \in raced
                  /\ r \in wanted \cup overwritten
  BY <1>1, <1>2 DEF Inv, LiveGroups, ActiveInLiveGroup, OffStaysOff, Active
<1>9. w.active \/ w.reason \in LimitReasons => r \in (wanted \cup overwritten)'
  BY <1>6, <1>7, <1>8
<1>10. UNCHANGED <<group, longOff, raced>>
  BY DEF TakeSlot
<1> QED BY <1>1, <1>2, <1>3, <1>4, <1>5, <1>7, <1>8, <1>9, <1>10, RowStep

-----------------------------------------------------------------------------
(* Edits and orders *)

LEMMA BeginCreateStep ==
    ASSUME Inv, NEW p \in Handlers, BeginCreate(p)
    PROVE  Inv'
<1>1. PICK r \in Requisites, limit \in Limits :
        /\ group[GroupOf[r]].exists /\ ~group[GroupOf[r]].archived
        /\ Begin(p, [op |-> "create", r |-> r, limit |-> limit,
                     active |-> group[GroupOf[r]].active])
  BY DEF BeginCreate
<1> DEFINE j == [op |-> "create", r |-> r, limit |-> limit,
                 active |-> group[GroupOf[r]].active]
<1>2. group[GroupOf[r]].active \in BOOLEAN
  BY ConstantsAssumption DEF ConstantsAssumption, Inv, TypeOK, GroupRow
<1>3. j \in Job
  BY <1>2 DEF Job, CreateJob
<1>4. /\ j.op # "releasing"
      /\ \A s \in Requisites : j.r = s /\ j.active => GroupOn(GroupOf[s])
      /\ j.op = "create"
  BY <1>1 DEF GroupOn
<1>5. /\ Set(p, j)
      /\ UNCHANGED <<group, longOff, row, history>>
      /\ held' \in [Requisites -> Nat] /\ canceled' \in [Requisites -> Nat]
  BY <1>1 DEF Begin, orders, Inv, TypeOK
<1> HIDE DEF j
<1> QED BY <1>3, <1>4, <1>5, CallStep

LEMMA CommitCreateStep ==
    ASSUME Inv, NEW p \in Handlers, CommitCreate(p)
    PROVE  Inv'
<1> DEFINE r == job[p].r
           w == NewRow(job[p].limit, job[p].active)
<1>1. job[p] \in CreateJob
  BY JobKind DEF Inv, CommitCreate
<1>2. r \in Requisites /\ job[p].limit \in Limits /\ job[p].active \in BOOLEAN
  BY <1>1 DEF CreateJob
<1>3. w \in RequisiteRow /\ w.active = job[p].active /\ w.reason = "NONE"
  BY <1>2, NewRowType, ConstantsAssumption
<1>4. row[r] # Deleted /\ ~Exists(r)
  BY DEF CommitCreate, NoRow, Deleted, Exists
<1>5. /\ row' = [row EXCEPT ![r] = w]
      /\ job[p].active => IndexAllows(r)
      /\ wanted' = IF job[p].active THEN wanted \cup {r} ELSE wanted
      /\ overwritten' = overwritten
      /\ UNCHANGED <<group, longOff, raced>>
      /\ job' = [job EXCEPT ![p] = Idle]
      /\ held' = held /\ canceled' = canceled
  BY DEF CommitCreate, Finish, Set, orders
<1>6. job[p].active => GroupOn(GroupOf[r]) \/ r \in raced
  BY <1>2, <1>4 DEF Inv, Seen, SawGroupOn, CommitCreate
<1>7. /\ job' \in [Handlers -> Job]
      /\ \A q \in Handlers : job'[q] = job[q] \/ job'[q] = Idle
  BY <1>5 DEF Inv, TypeOK, Job
<1>8. \A q \in Handlers : job'[q].op = "releasing" => job'[q].r # r
  <2> SUFFICES ASSUME NEW q \in Handlers, job'[q].op = "releasing"
               PROVE  job'[q].r # r
    OBVIOUS
  <2>1. job'[q] = job[q]
    BY <1>7 DEF Idle
  <2> QED BY <2>1, <1>4 DEF Inv, Locks
<1>9. /\ held' \in [Requisites -> Nat] /\ canceled' \in [Requisites -> Nat]
      /\ wanted' \subseteq Requisites /\ overwritten' \subseteq Requisites
      /\ \A s \in Requisites \ {r} : /\ s \in wanted' <=> s \in wanted
                                     /\ s \in overwritten' <=> s \in overwritten
  BY <1>2, <1>5 DEF Inv, TypeOK
<1>10. w.active \/ w.reason \in LimitReasons => r \in (wanted \cup overwritten)'
  BY <1>3, <1>5 DEF LimitReasons
<1> HIDE DEF r, w
<1> QED BY <1>2, <1>3, <1>4, <1>5, <1>6, <1>7, <1>8, <1>9, <1>10, RowStep

LEMMA BeginActivateStep ==
    ASSUME Inv, NEW p \in Handlers, BeginActivate(p)
    PROVE  Inv'
<1>1. PICK r \in Requisites :
        GroupOn(GroupOf[r]) /\ Begin(p, [op |-> "activate", r |-> r])
  BY DEF BeginActivate
<1> DEFINE j == [op |-> "activate", r |-> r]
<1>2. j \in Job /\ j.op = "activate" /\ j.r = r
  BY DEF Job, ActivateJob
<1>3. /\ Set(p, j)
      /\ UNCHANGED <<group, longOff, row, history>>
      /\ held' \in [Requisites -> Nat] /\ canceled' \in [Requisites -> Nat]
  BY <1>1 DEF Begin, orders, Inv, TypeOK
<1> HIDE DEF j
<1> QED BY <1>1, <1>2, <1>3, CallStep

LEMMA CommitActivateStep ==
    ASSUME Inv, NEW p \in Handlers, CommitActivate(p)
    PROVE  Inv'
<1> DEFINE r == job[p].r
           w == [row[r] EXCEPT !.active = TRUE, !.reason = "NONE"]
<1>1. r \in Requisites
  BY JobKind DEF Inv, CommitActivate, ActivateJob
<1>2. /\ Writable(r) /\ IndexAllows(r)
      /\ row' = [row EXCEPT ![r].active = TRUE, ![r].reason = "NONE"]
      /\ wanted' = wanted \cup {r}
      /\ overwritten' = overwritten \ {r}
      /\ UNCHANGED <<group, longOff, raced>>
      /\ job' = [job EXCEPT ![p] = Idle]
      /\ held' = held /\ canceled' = canceled
  BY DEF CommitActivate, Finish, Set, orders
<1>3. row[r] \in RequisiteRow /\ row[r] # Deleted
  BY <1>1, <1>2, ExistingRow DEF Inv, Writable, Exists
<1>4. w \in RequisiteRow
  BY <1>3 DEF RequisiteRow
<1>5. row' = [row EXCEPT ![r] = w]
  BY <1>2
<1>6. GroupOn(GroupOf[r]) \/ r \in raced
  BY <1>1, <1>3 DEF Inv, Seen, SawGroupOn, CommitActivate
<1>7. /\ job' \in [Handlers -> Job]
      /\ \A q \in Handlers : job'[q] = job[q] \/ job'[q] = Idle
      /\ \A q \in Handlers : job'[q].op = "releasing" => job'[q].r # r
  BY <1>2 DEF Inv, TypeOK, Job, Idle, Writable, Locked
<1>8. /\ held' \in [Requisites -> Nat] /\ canceled' \in [Requisites -> Nat]
      /\ wanted' \subseteq Requisites /\ overwritten' \subseteq Requisites
      /\ \A s \in Requisites \ {r} : /\ s \in wanted' <=> s \in wanted
                                     /\ s \in overwritten' <=> s \in overwritten
      /\ r \in (wanted \cup overwritten)'
  BY <1>1, <1>2 DEF Inv, TypeOK
<1> HIDE DEF r, w
<1> QED BY <1>1, <1>2, <1>3, <1>4, <1>5, <1>6, <1>7, <1>8, RowStep

LEMMA DeactivateStep ==
    ASSUME Inv, NEW r \in Requisites, Deactivate(r)
    PROVE  Inv'
<1> DEFINE w == Off(r)
<1>1. row[r] \in RequisiteRow /\ row[r] # Deleted
  BY ExistingRow DEF Inv, Deactivate, Writable, Exists
<1>2. w \in RequisiteRow /\ ~w.active /\ w.reason \notin LimitReasons
  BY <1>1 DEF Off, RequisiteRow, LimitReasons
<1>3. /\ row' = [row EXCEPT ![r] = w]
      /\ UNCHANGED <<group, longOff, raced, job, held, canceled>>
      /\ wanted' = wanted \ {r} /\ overwritten' = overwritten \ {r}
  BY DEF Deactivate, orders
<1>4. /\ job' \in [Handlers -> Job]
      /\ \A q \in Handlers : job'[q] = job[q] \/ job'[q] = Idle
      /\ \A q \in Handlers : job'[q].op = "releasing" => job'[q].r # r
  BY <1>3 DEF Inv, TypeOK, Deactivate, Writable, Locked
<1>5. /\ held' \in [Requisites -> Nat] /\ canceled' \in [Requisites -> Nat]
      /\ wanted' \subseteq Requisites /\ overwritten' \subseteq Requisites
      /\ \A s \in Requisites \ {r} : /\ s \in wanted' <=> s \in wanted
                                     /\ s \in overwritten' <=> s \in overwritten
  BY <1>3 DEF Inv, TypeOK
<1> HIDE DEF w
<1> QED BY <1>1, <1>2, <1>3, <1>4, <1>5, RowStep

LEMMA BeginUpdateStep ==
    ASSUME Inv, NEW p \in Handlers, BeginUpdate(p)
    PROVE  Inv'
<1>1. PICK r \in Requisites, limit \in NewLimits :
        Begin(p, [op |-> "limit", r |-> r, limit |-> limit])
  BY DEF BeginUpdate
<1> DEFINE j == [op |-> "limit", r |-> r, limit |-> limit]
<1>2. j \in Job /\ j.op = "limit"
  BY DEF Job, LimitJob
<1>3. /\ Set(p, j)
      /\ UNCHANGED <<group, longOff, row, history>>
      /\ held' \in [Requisites -> Nat] /\ canceled' \in [Requisites -> Nat]
  BY <1>1 DEF Begin, orders, Inv, TypeOK
<1> HIDE DEF j
<1> QED BY <1>2, <1>3, CallStep

LEMMA CommitUpdateStep ==
    ASSUME Inv, NEW p \in Handlers, CommitUpdate(p)
    PROVE  Inv'
<1> DEFINE r == job[p].r
           w == [row[r] EXCEPT !.limitOps = job[p].limit]
<1>1. job[p] \in LimitJob
  BY JobKind DEF Inv, CommitUpdate
<1>2. r \in Requisites /\ job[p].limit \in Nat
  BY <1>1, ConstantsAssumption DEF LimitJob, ConstantsAssumption
<1>3. /\ Writable(r)
      /\ row' = [row EXCEPT ![r].limitOps = job[p].limit]
      /\ UNCHANGED <<group, longOff, raced, wanted, overwritten, held, canceled>>
      /\ job' = [job EXCEPT ![p] = Idle]
  BY DEF CommitUpdate, Finish, Set, orders, history
<1>4. row[r] \in RequisiteRow /\ Exists(r) /\ row[r] # Deleted
  BY <1>2, <1>3, ExistingRow DEF Inv, Writable, Exists
<1>5. w \in RequisiteRow /\ w.active = row[r].active /\ w.reason = row[r].reason
  BY <1>2, <1>4 DEF RequisiteRow
<1>6. row' = [row EXCEPT ![r] = w]
  BY <1>3
<1>7. /\ job' \in [Handlers -> Job]
      /\ \A q \in Handlers : job'[q] = job[q] \/ job'[q] = Idle
      /\ \A q \in Handlers : job'[q].op = "releasing" => job'[q].r # r
  BY <1>3 DEF Inv, TypeOK, Job, Idle, Writable, Locked
<1>8. /\ held' \in [Requisites -> Nat] /\ canceled' \in [Requisites -> Nat]
      /\ wanted' \subseteq Requisites /\ overwritten' \subseteq Requisites
  BY <1>3 DEF Inv, TypeOK
<1>9. w.active => Active(r) /\ (GroupOn(GroupOf[r]) \/ r \in raced)
  BY <1>2, <1>4, <1>5 DEF Inv, LiveGroups, ActiveInLiveGroup, Active
<1>10. w.active \/ w.reason \in LimitReasons => r \in (wanted \cup overwritten)'
  BY <1>2, <1>3, <1>4, <1>5 DEF Inv, OffStaysOff, Reasons, Active
<1> HIDE DEF r, w
<1> QED BY <1>2, <1>3, <1>4, <1>5, <1>6, <1>7, <1>8, <1>9, <1>10, RowStep

LEMMA BeginUploadStep ==
    ASSUME Inv, NEW p \in Handlers, BeginUpload(p)
    PROVE  Inv'
<1>1. PICK r \in Requisites : Begin(p, [op |-> "upload", r |-> r])
  BY DEF BeginUpload
<1> DEFINE j == [op |-> "upload", r |-> r]
<1>2. j \in Job /\ j.op = "upload"
  BY DEF Job, UploadJob
<1>3. /\ Set(p, j)
      /\ UNCHANGED <<group, longOff, row, history>>
      /\ held' \in [Requisites -> Nat] /\ canceled' \in [Requisites -> Nat]
  BY <1>1 DEF Begin, orders, Inv, TypeOK
<1> HIDE DEF j
<1> QED BY <1>2, <1>3, CallStep

LEMMA CommitUploadStep ==
    ASSUME Inv, NEW p \in Handlers, CommitUpload(p)
    PROVE  Inv'
<1>1. job[p].r \in Requisites
  BY JobKind DEF Inv, CommitUpload, UploadJob
<1>2. /\ TakeSlot(job[p].r) /\ canceled' \in [Requisites -> Nat]
      /\ job' \in [Handlers -> Job]
      /\ \A q \in Handlers : job'[q] = job[q] \/ job'[q] = Idle
  BY DEF CommitUpload, Finish, Set, Inv, TypeOK, Job
<1> QED BY <1>1, <1>2, SlotStep

LEMMA RecoverStep ==
    ASSUME Inv, NEW r \in Requisites, Recover(r)
    PROVE  Inv'
<1>1. canceled' \in [Requisites -> Nat]
  BY DEF Recover, Inv, TypeOK
<1>2. /\ job' \in [Handlers -> Job]
      /\ \A q \in Handlers : job'[q] = job[q] \/ job'[q] = Idle
  BY DEF Recover, Inv, TypeOK
<1> QED BY <1>1, <1>2, SlotStep DEF Recover

LEMMA DeleteStep ==
    ASSUME Inv, NEW r \in Requisites, Delete(r)
    PROVE  Inv'
<1> USE DEF Inv
<1>1. /\ row' = [row EXCEPT ![r] = Deleted]
      /\ ~Locked(r)
      /\ UNCHANGED <<group, longOff, job>>
      /\ wanted' = wanted \ {r} /\ raced' = raced \ {r}
      /\ overwritten' = overwritten \ {r}
  BY DEF Delete, Writable
<1>2. /\ \A s \in Requisites : row'[s] = IF s = r THEN Deleted ELSE row[s]
      /\ \A s \in Requisites : Exists(s)' <=> s # r /\ Exists(s)
      /\ \A s \in Requisites : Active(s)' <=> s # r /\ Active(s)
  BY <1>1 DEF TypeOK, Exists, Active
<1>3. TypeOK'
  <2>1. row' \in [Requisites -> RequisiteRow \cup {NoRow, Deleted}]
    BY <1>1 DEF TypeOK
  <2> QED BY <2>1, <1>1 DEF TypeOK, Delete
<1>4. OneActivePerNumber' /\ OffStaysOff' /\ Reasons'
  BY <1>1, <1>2 DEF OneActivePerNumber, OffStaysOff, Reasons
<1>5. LiveGroups'
  BY <1>1, <1>2 DEF LiveGroups, ActiveInLiveGroup, GroupOn
<1>6. Seen'
  BY <1>1, <1>2 DEF Seen, SawGroupOn, GroupOn
<1>7. Locks'
  <2> SUFFICES ASSUME NEW q \in Handlers, job[q].op = "releasing"
               PROVE  /\ Exists(job[q].r)'
                      /\ row'[job[q].r] = row[job[q].r]
    BY <1>1 DEF Locks
  <2>1. job[q].r \in Requisites \ {r}
    BY <1>1, JobKind DEF ReleasingJob, Locked
  <2>2. Exists(job[q].r)
    BY DEF Locks
  <2> QED BY <2>1, <2>2, <1>1, <1>2
<1> QED BY <1>3, <1>4, <1>5, <1>6, <1>7

-----------------------------------------------------------------------------
(* Releases *)

LEMMA CancelOrderStep ==
    ASSUME Inv, NEW p \in Handlers, CancelOrder(p)
    PROVE  Inv'
<1>1. PICK r \in Requisites :
        /\ held[r] > 0
        /\ held' = [held EXCEPT ![r] = @ - 1]
        /\ canceled' = [canceled EXCEPT ![r] = @ + 1]
        /\ Set(p, [op |-> "release", r |-> r])
  BY DEF CancelOrder
<1> DEFINE j == [op |-> "release", r |-> r]
<1>2. j \in Job /\ j.op = "release"
  BY DEF Job, ReleaseJob
<1>3. held' \in [Requisites -> Nat] /\ canceled' \in [Requisites -> Nat]
  <2>1. held[r] - 1 \in Nat /\ canceled[r] + 1 \in Nat
    BY <1>1 DEF Inv, TypeOK
  <2> QED BY <1>1, <2>1 DEF Inv, TypeOK
<1>4. Set(p, j) /\ UNCHANGED <<group, longOff, row, history>>
  BY <1>1 DEF CancelOrder
<1> HIDE DEF j
<1> QED BY <1>2, <1>3, <1>4, CallStep

LEMMA ReadUsageStep ==
    ASSUME Inv, NEW p \in Handlers, ReadUsage(p)
    PROVE  Inv'
<1> DEFINE r == job[p].r
           j == [op |-> "read", r |-> r, seen |-> row[r].ops]
<1>1. r \in Requisites
  BY JobKind DEF Inv, ReadUsage, ReleaseJob
<1>2. row[r].ops \in Nat
  BY <1>1, ExistingRow DEF Inv, ReadUsage, RequisiteRow
<1>3. j \in Job /\ j.op = "read"
  BY <1>1, <1>2 DEF Job, ReadJob
<1>4. /\ Set(p, j) /\ UNCHANGED <<group, longOff, row, history>>
      /\ held' \in [Requisites -> Nat] /\ canceled' \in [Requisites -> Nat]
  BY DEF ReadUsage, orders, Inv, TypeOK
<1> HIDE DEF j
<1> QED BY <1>3, <1>4, CallStep

LEMMA WriteUsageStep ==
    ASSUME Inv, NEW p \in Handlers, WriteUsage(p)
    PROVE  Inv'
<1> USE DEF Inv
<1> DEFINE r == job[p].r
           seen == job[p].seen
           j == [op |-> "releasing", r |-> r, seen |-> seen, active |-> Reenables(r, seen)]
<1>1. r \in Requisites /\ seen \in Nat
  BY JobKind DEF WriteUsage, ReadJob
<1>2. /\ Exists(r) /\ ~Locked(r)
      /\ job' = [job EXCEPT ![p] = j]
      /\ UNCHANGED <<group, longOff, row, held, canceled, wanted, raced, overwritten>>
  BY DEF WriteUsage, Writable, Set, orders, history
<1>3. Reenables(r, seen) \in BOOLEAN
  BY <1>1 DEF Reenables
<1>4. j \in Job
  BY <1>1, <1>3 DEF Job, ReleasingJob
<1>5. /\ j.op = "releasing" /\ j.r = r
      /\ j.active => /\ GroupOn(GroupOf[r])
                     /\ row[r].reason \in LimitReasons
                     /\ ~row[r].active
  BY DEF Reenables
<1>6. \A q \in Handlers : job'[q] = IF q = p THEN j ELSE job[q]
  BY <1>2 DEF TypeOK
<1> HIDE DEF j
<1>7. TypeOK'
  BY <1>2, <1>4 DEF TypeOK
<1>8. OneActivePerNumber' /\ LiveGroups' /\ OffStaysOff' /\ Reasons'
  BY <1>2 DEF OneActivePerNumber, LiveGroups, ActiveInLiveGroup, GroupOn, OffStaysOff,
              Reasons, Active, Exists
<1>9. Seen'
  <2> SUFFICES ASSUME NEW q \in Handlers, NEW s \in Requisites,
                      SawGroupOn(q, s)', row[s] # Deleted
               PROVE  GroupOn(GroupOf[s]) \/ s \in raced
    BY <1>2 DEF Seen, GroupOn
  <2>1. CASE q = p
    BY <1>5, <1>6, <2>1 DEF SawGroupOn
  <2>2. CASE q # p
    BY <1>6, <2>2 DEF SawGroupOn, Seen
  <2> QED BY <2>1, <2>2
<1>10. Locks'
  <2>1. \A q \in Handlers \ {p} : job[q].op = "releasing" => job[q].r # r
    BY <1>2 DEF Locked
  <2> QED BY <1>2, <1>5, <1>6, <2>1 DEF Locks, Exists
<1> QED BY <1>7, <1>8, <1>9, <1>10

LEMMA CommitReleaseStep ==
    ASSUME Inv, NEW p \in Handlers, CommitRelease(p)
    PROVE  Inv'
<1> DEFINE r == job[p].r
           released == Released(r, job[p].seen)
           on == [released EXCEPT !.active = TRUE, !.reason = "NONE"]
           w == IF job[p].active THEN on ELSE released
<1>1. job[p] \in ReleasingJob
  BY JobKind DEF Inv, CommitRelease
<1>2. r \in Requisites /\ job[p].seen \in Nat /\ job[p].active \in BOOLEAN
  BY <1>1 DEF ReleasingJob
<1>3. /\ Exists(r) /\ row[r] \in RequisiteRow /\ row[r] # Deleted
      /\ job[p].active => row[r].reason \in LimitReasons
  BY <1>2, ExistingRow DEF Inv, Locks, CommitRelease, Exists
<1>4. /\ released \in RequisiteRow
      /\ released.active = row[r].active /\ released.reason = row[r].reason
  BY <1>2, <1>3, ReleasedType
<1>5. on \in RequisiteRow
  <2> HIDE DEF released
  <2> QED BY <1>4 DEF RequisiteRow
<1>6. /\ row' = [row EXCEPT ![r] = w]
      /\ job[p].active => IndexAllows(r)
      /\ UNCHANGED <<group, longOff, raced, wanted, overwritten, held, canceled>>
      /\ job' = [job EXCEPT ![p] = Idle]
  BY DEF CommitRelease, Finish, Set, orders, history
<1>7. /\ w \in RequisiteRow
      /\ ~job[p].active => w.active = row[r].active /\ w.reason = row[r].reason
  BY <1>2, <1>4, <1>5
<1>8. job[p].active => /\ GroupOn(GroupOf[r]) \/ r \in raced
                       /\ r \in wanted \cup overwritten
  BY <1>2, <1>3 DEF Inv, Seen, SawGroupOn, Reasons, CommitRelease
<1>9. w.active => /\ Active(r) \/ IndexAllows(r)
                  /\ GroupOn(GroupOf[r]) \/ r \in raced
  <2>1. CASE job[p].active
    BY <1>6, <1>8, <2>1
  <2>2. CASE ~job[p].active
    BY <1>2, <1>3, <1>7, <2>2 DEF Inv, LiveGroups, ActiveInLiveGroup, Active
  <2> QED BY <2>1, <2>2
<1>10. w.active \/ w.reason \in LimitReasons => r \in (wanted \cup overwritten)'
  <2>1. CASE job[p].active
    BY <1>6, <1>8, <2>1
  <2>2. CASE ~job[p].active
    BY <1>2, <1>3, <1>6, <1>7, <2>2 DEF Inv, OffStaysOff, Reasons, Active
  <2> QED BY <2>1, <2>2
<1>11. /\ job' \in [Handlers -> Job]
       /\ \A q \in Handlers : job'[q] = job[q] \/ job'[q] = Idle
  BY <1>6 DEF Inv, TypeOK, Job
<1>12. \A q \in Handlers : job'[q].op = "releasing" => job'[q].r # r
  <2> SUFFICES ASSUME NEW q \in Handlers, job'[q].op = "releasing"
               PROVE  job'[q].r # r
    OBVIOUS
  <2>1. q # p /\ job'[q] = job[q]
    BY <1>6 DEF Inv, TypeOK, Idle
  <2> QED BY <2>1 DEF Inv, Locks, CommitRelease
<1>13. /\ held' \in [Requisites -> Nat] /\ canceled' \in [Requisites -> Nat]
       /\ wanted' \subseteq Requisites /\ overwritten' \subseteq Requisites
  BY <1>6 DEF Inv, TypeOK
<1> HIDE DEF r, w
<1> QED BY <1>2, <1>3, <1>6, <1>7, <1>9, <1>10, <1>11, <1>12, <1>13, RowStep

LEMMA FailStep ==
    ASSUME Inv, NEW p \in Handlers, Fail(p)
    PROVE  Inv'
<1>1. Idle \in Job /\ Idle.op = "idle"
  BY DEF Idle, Job
<1>2. /\ Set(p, Idle) /\ UNCHANGED <<group, longOff, row, history>>
      /\ held' \in [Requisites -> Nat] /\ canceled' \in [Requisites -> Nat]
  BY DEF Fail, Finish, orders, Inv, TypeOK
<1> QED BY <1>1, <1>2, CallStep

-----------------------------------------------------------------------------
(* Groups *)

\* A group changes in a way that leaves no requisite worse off.
LEMMA GroupStep ==
    ASSUME Inv, group' \in [Groups -> GroupRow], longOff' \subseteq Groups,
           raced' \subseteq Requisites,
           \A g \in longOff' : group'[g].exists /\ ~group'[g].active,
           \A r \in Requisites : GroupOn(GroupOf[r]) \/ r \in raced
                                   => GroupOn(GroupOf[r])' \/ r \in raced',
           UNCHANGED <<row, held, canceled, job, wanted, overwritten>>
    PROVE  Inv'
<1> USE DEF Inv
<1>1. TypeOK'
  BY DEF TypeOK
<1>2. OneActivePerNumber' /\ OffStaysOff' /\ Reasons' /\ Locks'
  BY DEF OneActivePerNumber, OffStaysOff, Reasons, Locks, Active, Exists
<1>3. LiveGroups'
  BY DEF LiveGroups, ActiveInLiveGroup, Active, Exists
<1>4. Seen'
  BY DEF Seen, SawGroupOn
<1> QED BY <1>1, <1>2, <1>3, <1>4

LEMMA CreateGroupStep ==
    ASSUME Inv, NEW g \in Groups, CreateGroup(g)
    PROVE  Inv'
<1> DEFINE new == [exists |-> TRUE, active |-> TRUE, archived |-> FALSE]
<1>1. new \in GroupRow
  BY DEF GroupRow
<1>2. /\ group' = [group EXCEPT ![g] = new]
      /\ UNCHANGED <<longOff, row, held, canceled, job, wanted, raced, overwritten>>
      /\ ~group[g].exists
  BY DEF CreateGroup, orders, history
<1>3. new.active /\ ~new.archived
  OBVIOUS
<1> HIDE DEF new
<1>4. /\ group' \in [Groups -> GroupRow]
      /\ longOff' \subseteq Groups /\ raced' \subseteq Requisites
  BY <1>1, <1>2 DEF Inv, TypeOK
<1>5. \A h \in longOff' : group'[h].exists /\ ~group'[h].active
  BY <1>2 DEF Inv, TypeOK, LiveGroups
<1>6. \A r \in Requisites : GroupOn(GroupOf[r]) \/ r \in raced
                              => GroupOn(GroupOf[r])' \/ r \in raced'
  BY <1>2, <1>3, ConstantsAssumption DEF Inv, TypeOK, GroupOn, ConstantsAssumption
<1> QED BY <1>2, <1>4, <1>5, <1>6, GroupStep

LEMMA SwitchGroupOnStep ==
    ASSUME Inv, NEW g \in Groups, SwitchGroupOn(g)
    PROVE  Inv'
<1> DEFINE new == [group[g] EXCEPT !.active = TRUE, !.archived = FALSE]
<1>1. new \in GroupRow /\ new.active /\ ~new.archived
  BY DEF Inv, TypeOK, GroupRow
<1>2. /\ group' = [group EXCEPT ![g] = new]
      /\ longOff' = longOff \ {g}
      /\ raced' = {r \in raced : GroupOf[r] # g}
      /\ UNCHANGED <<row, held, canceled, job, wanted, overwritten>>
  BY DEF SwitchGroupOn, orders
<1> HIDE DEF new
<1>3. /\ group' \in [Groups -> GroupRow]
      /\ longOff' \subseteq Groups /\ raced' \subseteq Requisites
  BY <1>1, <1>2 DEF Inv, TypeOK
<1>4. \A h \in longOff' : group'[h].exists /\ ~group'[h].active
  BY <1>2 DEF Inv, TypeOK, LiveGroups
<1>5. \A r \in Requisites : GroupOn(GroupOf[r]) \/ r \in raced
                              => GroupOn(GroupOf[r])' \/ r \in raced'
  BY <1>1, <1>2, ConstantsAssumption DEF Inv, TypeOK, GroupOn, ConstantsAssumption
<1> QED BY <1>2, <1>3, <1>4, <1>5, GroupStep

LEMMA WeekPassesStep ==
    ASSUME Inv, NEW g \in Groups, WeekPasses(g)
    PROVE  Inv'
<1>1. /\ group[g].exists /\ ~group[g].active
      /\ longOff' = longOff \cup {g}
      /\ UNCHANGED <<group, row, held, canceled, job, wanted, raced, overwritten>>
  BY DEF WeekPasses, orders, history
<1>2. /\ group' \in [Groups -> GroupRow]
      /\ longOff' \subseteq Groups /\ raced' \subseteq Requisites
  BY <1>1 DEF Inv, TypeOK
<1>3. \A h \in longOff' : group'[h].exists /\ ~group'[h].active
  BY <1>1 DEF Inv, LiveGroups
<1>4. \A r \in Requisites : GroupOn(GroupOf[r]) \/ r \in raced
                              => GroupOn(GroupOf[r])' \/ r \in raced'
  BY <1>1 DEF GroupOn
<1> QED BY <1>1, <1>2, <1>3, <1>4, GroupStep

LEMMA ArchiveStep ==
    ASSUME Inv, ArchiveInactiveGroups
    PROVE  Inv'
<1>1. /\ group' = [g \in Groups |-> IF g \in longOff THEN [group[g] EXCEPT !.archived = TRUE]
                                    ELSE group[g]]
      /\ longOff' = {}
      /\ UNCHANGED <<row, held, canceled, job, wanted, raced, overwritten>>
  BY DEF ArchiveInactiveGroups, orders, history
<1>2. \A g \in Groups : [group[g] EXCEPT !.archived = TRUE] \in GroupRow
  BY DEF Inv, TypeOK, GroupRow
<1>3. /\ group' \in [Groups -> GroupRow]
      /\ longOff' \subseteq Groups /\ raced' \subseteq Requisites
  BY <1>1, <1>2 DEF Inv, TypeOK
<1>4. \A h \in longOff' : group'[h].exists /\ ~group'[h].active
  BY <1>1
<1>5. \A g \in Groups : GroupOn(g) => g \notin longOff
  BY DEF Inv, LiveGroups, GroupOn
<1>6. \A r \in Requisites : GroupOn(GroupOf[r]) \/ r \in raced
                              => GroupOn(GroupOf[r])' \/ r \in raced'
  BY <1>1, <1>5, ConstantsAssumption DEF GroupOn, ConstantsAssumption
<1> QED BY <1>1, <1>3, <1>4, <1>6, GroupStep

LEMMA SwitchGroupOffStep ==
    ASSUME Inv, NEW g \in Groups, SwitchGroupOff(g)
    PROVE  Inv'
<1> USE DEF Inv
<1> DEFINE affected == {r \in Requisites : GroupOf[r] = g /\ Active(r)}
<1>1. /\ \A r \in affected : ~Locked(r)
      /\ row' = [r \in Requisites |-> IF r \in affected THEN Off(r) ELSE row[r]]
      /\ wanted' = wanted \ affected
      /\ overwritten' = overwritten \ affected
  BY DEF SwitchGroupOff, SwitchRequisitesOff
<1>2. PICK archived \in {group[g].archived, TRUE} :
        group' = [group EXCEPT ![g].active = FALSE, ![g].archived = archived]
  BY DEF SwitchGroupOff
<1>3. /\ longOff' = longOff \ {g}
      /\ UNCHANGED <<held, canceled, job>>
      /\ raced' = raced \cup {r \in Requisites : /\ GroupOf[r] = g
                                                 /\ \E p \in Handlers : SawGroupOn(p, r)}
  BY DEF SwitchGroupOff, orders
<1> HIDE DEF affected
<1>4. \A r \in Requisites : r \in affected <=> GroupOf[r] = g /\ Active(r)
  BY DEF affected
<1>5. \A r \in affected : /\ r \in Requisites
                          /\ Off(r) \in RequisiteRow
                          /\ ~Off(r).active
                          /\ Off(r).reason = "MANUAL"
  <2> SUFFICES ASSUME NEW r \in affected
               PROVE  /\ r \in Requisites
                      /\ Off(r) \in RequisiteRow
                      /\ ~Off(r).active
                      /\ Off(r).reason = "MANUAL"
    OBVIOUS
  <2>1. r \in Requisites /\ row[r] \in RequisiteRow
    BY <1>4, ExistingRow DEF affected, Active
  <2> QED BY <2>1 DEF Off, RequisiteRow
<1>6. /\ \A r \in Requisites : row'[r] = IF r \in affected THEN Off(r) ELSE row[r]
      /\ \A r \in Requisites : Exists(r)' <=> Exists(r)
      /\ \A r \in Requisites : Active(r)' <=> Active(r) /\ GroupOf[r] # g
  <2>1. \A r \in Requisites : row'[r] = IF r \in affected THEN Off(r) ELSE row[r]
    BY <1>1
  <2>2. \A r \in Requisites : Exists(r)' <=> Exists(r)
    BY <2>1, <1>4, <1>5, RowIsNotGone DEF Exists, Active
  <2> QED BY <2>1, <2>2, <1>4, <1>5 DEF Active
<1>7. TypeOK'
  <2>1. row' \in [Requisites -> RequisiteRow \cup {NoRow, Deleted}]
    BY <1>1, <1>5 DEF TypeOK
  <2>2. group[g].archived \in BOOLEAN
    BY DEF TypeOK, GroupRow
  <2>3. [group[g] EXCEPT !.active = FALSE, !.archived = archived] \in GroupRow
    BY <1>2, <2>2 DEF TypeOK, GroupRow
  <2>4. group' \in [Groups -> GroupRow]
    BY <1>2, <2>3 DEF TypeOK
  <2> QED BY <2>1, <2>4, <1>1, <1>3 DEF TypeOK
<1>8. OneActivePerNumber'
  BY <1>6 DEF OneActivePerNumber
<1>9. OffStaysOff'
  BY <1>1, <1>4, <1>6 DEF OffStaysOff
<1>10. Reasons'
  BY <1>1, <1>5, <1>6 DEF Reasons, LimitReasons
<1>11. \A h \in Groups \ {g} : group'[h] = group[h]
  BY <1>2 DEF TypeOK
<1>12. \A r \in Requisites : GroupOf[r] # g => (GroupOn(GroupOf[r])' <=> GroupOn(GroupOf[r]))
  BY <1>11, ConstantsAssumption DEF GroupOn, ConstantsAssumption
<1>13. LiveGroups'
  <2>1. ActiveInLiveGroup'
    BY <1>3, <1>6, <1>12 DEF LiveGroups, ActiveInLiveGroup
  <2>2. \A h \in longOff' : group'[h].exists /\ ~group'[h].active
    BY <1>3, <1>11 DEF LiveGroups, TypeOK
  <2> QED BY <2>1, <2>2 DEF LiveGroups
<1>14. Seen'
  <2> SUFFICES ASSUME NEW q \in Handlers, NEW r \in Requisites,
                      SawGroupOn(q, r)', row'[r] # Deleted
               PROVE  GroupOn(GroupOf[r])' \/ r \in raced'
    BY DEF Seen
  <2>1. SawGroupOn(q, r)
    BY <1>3 DEF SawGroupOn
  <2>2. CASE GroupOf[r] = g
    BY <2>1, <2>2, <1>3
  <2>3. CASE GroupOf[r] # g
    <3>1. row[r] # Deleted
      BY <1>4, <1>6 DEF Active, Exists
    <3> QED BY <2>1, <2>3, <3>1, <1>3, <1>12 DEF Seen
  <2> QED BY <2>2, <2>3
<1>15. Locks'
  <2> SUFFICES ASSUME NEW q \in Handlers, job[q].op = "releasing"
               PROVE  /\ Exists(job[q].r)'
                      /\ row'[job[q].r] = row[job[q].r]
    BY <1>3 DEF Locks
  <2>1. job[q].r \in Requisites
    BY JobKind DEF ReleasingJob
  <2>2. Exists(job[q].r)
    BY DEF Locks
  <2>3. job[q].r \notin affected
    BY <1>1 DEF Locked
  <2> QED BY <2>1, <2>2, <2>3, <1>3, <1>6
<1> QED BY <1>7, <1>8, <1>9, <1>10, <1>13, <1>14, <1>15

-----------------------------------------------------------------------------
(* The invariant *)

LEMMA InitInv == ConstantsAssumption /\ Init => Inv
<1> SUFFICES ASSUME Init PROVE Inv
  OBVIOUS
<1> USE DEF Init
<1>1. \A r \in Requisites : ~Exists(r)
  BY DEF Exists
<1>2. \A p \in Handlers : job[p] = Idle /\ job[p].op = "idle"
  BY DEF Idle
<1>3. TypeOK
  BY DEF TypeOK, GroupRow, NoGroup, Job
<1>4. OneActivePerNumber /\ OffStaysOff /\ Reasons /\ LiveGroups
  BY <1>1 DEF OneActivePerNumber, OffStaysOff, Reasons, LiveGroups, ActiveInLiveGroup, Active
<1>5. Seen /\ Locks
  BY <1>2 DEF Seen, Locks, SawGroupOn
<1> QED BY <1>3, <1>4, <1>5 DEF Inv

LEMMA HandlerStep ==
    ASSUME Inv, NEW p \in Handlers, Handler(p)
    PROVE  Inv'
BY BeginCreateStep, CommitCreateStep, BeginActivateStep, CommitActivateStep,
   BeginUpdateStep, CommitUpdateStep, BeginUploadStep, CommitUploadStep,
   CancelOrderStep, ReadUsageStep, WriteUsageStep, CommitReleaseStep, FailStep
   DEF Handler

LEMMA InvStep == Inv /\ [Next]_vars => Inv'
<1> SUFFICES ASSUME Inv, [Next]_vars PROVE Inv'
  OBVIOUS
<1>1. CASE \E p \in Handlers : Handler(p)
  BY <1>1, HandlerStep
<1>2. CASE \E g \in Groups : \/ CreateGroup(g) \/ SwitchGroupOn(g)
                             \/ SwitchGroupOff(g) \/ WeekPasses(g)
  BY <1>2, CreateGroupStep, SwitchGroupOnStep, SwitchGroupOffStep, WeekPassesStep
<1>3. CASE ArchiveInactiveGroups
  BY <1>3, ArchiveStep
<1>4. CASE \E r \in Requisites : Deactivate(r) \/ Delete(r) \/ Recover(r)
  BY <1>4, DeactivateStep, DeleteStep, RecoverStep
<1>5. CASE UNCHANGED vars
  BY <1>5 DEF vars, orders, history, Inv, TypeOK, OneActivePerNumber, LiveGroups,
              ActiveInLiveGroup, Seen, SawGroupOn, Locks, OffStaysOff, Reasons, GroupOn,
              Active, Exists
<1> QED BY <1>1, <1>2, <1>3, <1>4, <1>5 DEF Next

\* Inv holds in every reachable state.
THEOREM InvHolds == Spec => []Inv
<1>1. Init => Inv
  BY InitInv, ConstantsAssumption
<1> QED BY <1>1, InvStep, PTL DEF Spec

\* Every group, requisite and call keeps the shape the tables and handlers give it.
THEOREM TypeCorrect == Spec => []TypeOK
<1>1. Inv => TypeOK
  BY DEF Inv
<1> QED BY <1>1, InvHolds, PTL

\* The unique index keeps active requisites of one number apart, whatever edits
\* and releases run at the same time (requisites.service.ts).
THEOREM OneActive == Spec => []OneActivePerNumber
<1>1. Inv => OneActivePerNumber
  BY DEF Inv
<1> QED BY <1>1, InvHolds, PTL

\* Only a call that had seen the group on leaves a requisite active in a group
\* that is off (assertGroupAllowsActivatedRequisite).
THEOREM LiveGroup == Spec => []ActiveInLiveGroup
<1>1. Inv => ActiveInLiveGroup
  BY DEF Inv, LiveGroups
<1> QED BY <1>1, InvHolds, PTL

\* A release switches on no requisite that was switched off by hand, unless an
\* order has replaced the reason (maybeAutoReenableAfterLimitReleaseInTransaction).
THEOREM StaysOff == Spec => []OffStaysOff
<1>1. Inv => OffStaysOff
  BY DEF Inv
<1> QED BY <1>1, InvHolds, PTL
=============================================================================
