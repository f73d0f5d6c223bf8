----------------------------- MODULE Requisites -----------------------------
(***************************************************************************)
(* Who switches a requisite on and off: the edits of                       *)
(* requisites.service.ts and requisite-groups.service.ts, the daily job of *)
(* maintenance.service.ts, and the counters, which switch a requisite off  *)
(* at a cap and on again when an order is canceled.                        *)
(*                                                                         *)
(* Edits read the requisite and its group, validate, and write by id.  A   *)
(* release reads the counters, locks the row by writing them, looks at the *)
(* group and at other requisites of the same number, and commits.  Two     *)
(* active requisites of one number are kept apart by a unique index.       *)
(*                                                                         *)
(* Each order has amount 1, and the operation cap stands for both caps.    *)
(***************************************************************************)
EXTENDS RequisiteCounters, FiniteSets

CONSTANTS
    Groups, Requisites,     \* ids of rows that may be created
    GroupOf,                \* the group of a requisite
    Number,                 \* type and normalized number of a requisite
    Limits, NewLimits,      \* operation caps requisites begin with, and get later
    Handlers,               \* calls in progress at a time
    MaxOrders,              \* bound on the orders of a requisite
    MayFail                 \* a process may die, or the database fail, mid-call

ASSUME ConstantsAssumption ==
    /\ GroupOf \in [Requisites -> Groups]
    /\ Limits \subseteq Nat \ {0}
    /\ NewLimits \subseteq Nat \ {0}
    /\ MaxOrders \in Nat
    /\ MayFail \in BOOLEAN

VARIABLES
    group,          \* is_active and archived_at of requisite_groups
    longOff,        \* groups not archived, with deactivated_at seven days back
    row,            \* requisites
    held,           \* orders of a requisite that have a slot
    canceled,       \* orders of a requisite that are CANCELED
    job,            \* the call each handler is in the middle of
    wanted,         \* history: requisites last switched on by hand
    raced,          \* history: requisites whose group was last switched off
                    \* under a call that had seen it on
    overwritten     \* history: requisites switched off by hand whose reason an
                    \* order replaced by a cap

orders == <<held, canceled>>
history == <<wanted, raced, overwritten>>
vars == <<group, longOff, row, orders, job, history>>

-----------------------------------------------------------------------------
(* Rows and calls *)

NoGroup == [exists |-> FALSE, active |-> FALSE, archived |-> FALSE]

GroupRow == [exists: BOOLEAN, active: BOOLEAN, archived: BOOLEAN]

NoRow == [reason |-> "NO_ROW"]

\* Ids are not used again.
Deleted == [reason |-> "DELETED"]

\* The amount cap is never reached.
NewRow(limit, active) ==
    [ops |-> 0, amount |-> 0, confirmed |-> 0, limitOps |-> limit,
     limitAmount |-> MaxOrders + 1, active |-> active, reason |-> "NONE"]

Idle == [op |-> "idle"]

\* active: the group was on when it was read.
CreateJob    == [op: {"create"}, r: Requisites, limit: Limits, active: BOOLEAN]
ActivateJob  == [op: {"activate"}, r: Requisites]
LimitJob     == [op: {"limit"}, r: Requisites, limit: NewLimits]
UploadJob    == [op: {"upload"}, r: Requisites]
ReleaseJob   == [op: {"release"}, r: Requisites]
ReadJob      == [op: {"read"}, r: Requisites, seen: Nat]
\* The row is locked; active: the release is going to switch it on.
ReleasingJob == [op: {"releasing"}, r: Requisites, seen: Nat, active: BOOLEAN]

Job == {Idle} \cup CreateJob \cup ActivateJob \cup LimitJob \cup UploadJob
         \cup ReleaseJob \cup ReadJob \cup ReleasingJob

TypeOK ==
    /\ group \in [Groups -> GroupRow]
    /\ longOff \subseteq Groups
    /\ row \in [Requisites -> RequisiteRow \cup {NoRow, Deleted}]
    /\ held \in [Requisites -> Nat]
    /\ canceled \in [Requisites -> Nat]
    /\ job \in [Handlers -> Job]
    /\ wanted \subseteq Requisites
    /\ raced \subseteq Requisites
    /\ overwritten \subseteq Requisites

Init ==
    /\ group = [g \in Groups |-> NoGroup]
    /\ longOff = {}
    /\ row = [r \in Requisites |-> NoRow]
    /\ held = [r \in Requisites |-> 0]
    /\ canceled = [r \in Requisites |-> 0]
    /\ job = [p \in Handlers |-> Idle]
    /\ wanted = {}
    /\ raced = {}
    /\ overwritten = {}

-----------------------------------------------------------------------------
(* Helpers *)

Exists(r) == row[r] \notin {NoRow, Deleted}

Active(r) == Exists(r) /\ row[r].active

GroupOn(g) == group[g].active /\ ~group[g].archived

\* A release has written the row and not committed.
Locked(r) == \E p \in Handlers : job[p].op = "releasing" /\ job[p].r = r

Writable(r) == Exists(r) /\ ~Locked(r)

\* No other active requisite has the number of r.
NumberIsFree(r) ==
    \A other \in Requisites \ {r} : Active(other) => Number[other] # Number[r]

\* Mutant: the unique index is missing.
NoIndex(r) == TRUE

\* requisites_active_type_number_normalized_uidx lets r be active.
IndexAllows(r) == NumberIsFree(r)

Set(p, j) == job' = [job EXCEPT ![p] = j]

Finish(p) == Set(p, Idle)

Begin(p, j) ==
    /\ job[p] = Idle
    /\ Set(p, j)
    /\ UNCHANGED <<group, longOff, row, orders, history>>

-----------------------------------------------------------------------------
(* Groups *)

CreateGroup(g) ==
    /\ ~group[g].exists
    /\ group' = [group EXCEPT ![g] = [exists |-> TRUE, active |-> TRUE, archived |-> FALSE]]
    /\ UNCHANGED <<longOff, row, orders, job, history>>

\* update with isActive, and restore.  No requisite is switched on.
SwitchGroupOn(g) ==
    /\ group[g].exists
    /\ group' = [group EXCEPT ![g].active = TRUE, ![g].archived = FALSE]
    /\ longOff' = longOff \ {g}
    /\ raced' = {r \in raced : GroupOf[r] # g}
    /\ UNCHANGED <<row, orders, job, wanted, overwritten>>

\* The call is going to switch r on, because it has seen the group on.
SawGroupOn(p, r) ==
    /\ job[p].op \in {"create", "activate", "releasing"}
    /\ job[p].r = r
    /\ job[p].op # "activate" => job[p].active

Off(r) == [row[r] EXCEPT !.active = FALSE, !.reason = "MANUAL"]

\* Mutant: the requisites of the group stay on.
SwitchNothingOff(g) == UNCHANGED <<row, wanted, overwritten>>

\* The active requisites of the group go off with it; others keep their reason.
SwitchRequisitesOff(g) ==
    LET affected == {r \in Requisites : GroupOf[r] = g /\ Active(r)}
    IN  /\ \A r \in affected : ~Locked(r)
        /\ row' = [r \in Requisites |-> IF r \in affected THEN Off(r) ELSE row[r]]
        /\ wanted' = wanted \ affected
        /\ overwritten' = overwritten \ affected

\* update without isActive, and delete, which archives the group at once.
SwitchGroupOff(g) ==
    /\ group[g].exists
    /\ SwitchRequisitesOff(g)
    /\ \E archived \in {group[g].archived, TRUE} :
           group' = [group EXCEPT ![g].active = FALSE, ![g].archived = archived]
    /\ longOff' = longOff \ {g}
    /\ raced' = raced \cup {r \in Requisites : /\ GroupOf[r] = g
                                               /\ \E p \in Handlers : SawGroupOn(p, r)}
    /\ UNCHANGED <<orders, job>>

WeekPasses(g) ==
    /\ group[g].exists /\ ~group[g].active /\ ~group[g].archived
    /\ g \notin longOff
    /\ longOff' = longOff \cup {g}
    /\ UNCHANGED <<group, row, orders, job, history>>

\* The daily job, one conditional update.
ArchiveInactiveGroups ==
    /\ longOff # {}
    /\ group' = [g \in Groups |-> IF g \in longOff THEN [group[g] EXCEPT !.archived = TRUE]
                                  ELSE group[g]]
    /\ longOff' = {}
    /\ UNCHANGED <<row, orders, job, history>>

-----------------------------------------------------------------------------
(* Requisites *)

BeginCreate(p) ==
    \E r \in Requisites, limit \in Limits :
        /\ row[r] = NoRow
        /\ group[GroupOf[r]].exists /\ ~group[GroupOf[r]].archived
        /\ NumberIsFree(r)
        /\ Begin(p, [op |-> "create", r |-> r, limit |-> limit,
                     active |-> group[GroupOf[r]].active])

CommitCreate(p) ==
    /\ job[p].op = "create"
    /\ LET r == job[p].r
       IN  /\ row[r] = NoRow
           /\ job[p].active => IndexAllows(r)
           /\ row' = [row EXCEPT ![r] = NewRow(job[p].limit, job[p].active)]
           /\ wanted' = IF job[p].active THEN wanted \cup {r} ELSE wanted
    /\ Finish(p)
    /\ UNCHANGED <<group, longOff, orders, raced, overwritten>>

\* Neither now nor later are the caps asked.
BeginActivate(p) ==
    \E r \in Requisites :
        /\ Exists(r)
        /\ GroupOn(GroupOf[r])
        /\ NumberIsFree(r)
        /\ Begin(p, [op |-> "activate", r |-> r])

CommitActivate(p) ==
    /\ job[p].op = "activate"
    /\ LET r == job[p].r
       IN  /\ Writable(r)
           /\ IndexAllows(r)
           /\ row' = [row EXCEPT ![r].active = TRUE, ![r].reason = "NONE"]
           /\ wanted' = wanted \cup {r}
           /\ overwritten' = overwritten \ {r}
    /\ Finish(p)
    /\ UNCHANGED <<group, longOff, orders, raced>>

Deactivate(r) ==
    /\ Writable(r)
    /\ row' = [row EXCEPT ![r] = Off(r)]
    /\ wanted' = wanted \ {r}
    /\ overwritten' = overwritten \ {r}
    /\ UNCHANGED <<group, longOff, orders, job, raced>>

\* The cap may not go below the usage as it was read.
BeginUpdate(p) ==
    \E r \in Requisites, limit \in NewLimits :
        /\ Exists(r)
        /\ limit >= row[r].ops
        /\ Begin(p, [op |-> "limit", r |-> r, limit |-> limit])

CommitUpdate(p) ==
    /\ job[p].op = "limit"
    /\ Writable(job[p].r)
    /\ row' = [row EXCEPT ![job[p].r].limitOps = job[p].limit]
    /\ Finish(p)
    /\ UNCHANGED <<group, longOff, orders, history>>

\* The orders stay, without a requisite.
Delete(r) ==
    /\ Writable(r)
    /\ row' = [row EXCEPT ![r] = Deleted]
    /\ held' = [held EXCEPT ![r] = 0]
    /\ canceled' = [canceled EXCEPT ![r] = 0]
    /\ wanted' = wanted \ {r}
    /\ raced' = raced \ {r}
    /\ overwritten' = overwritten \ {r}
    /\ UNCHANGED <<group, longOff, job>>

-----------------------------------------------------------------------------
(* Orders take slots *)

\* One more order: its cap may be the reason why the requisite is off from now.
TakeSlot(r) ==
    /\ Writable(r)
    /\ CanReserve(row[r], 1)
    /\ row' = [row EXCEPT ![r] = Reserve(@, 1)]
    /\ held' = [held EXCEPT ![r] = @ + 1]
    /\ overwritten' = overwritten \cup
                        (IF row'[r].reason \in LimitReasons THEN {r} \ wanted ELSE {})
    /\ UNCHANGED <<group, longOff, wanted, raced>>

\* The cascade lists the requisite.
BeginUpload(p) ==
    \E r \in Requisites :
        /\ Active(r)
        /\ GroupOn(GroupOf[r])
        /\ CanReserve(row[r], 1)
        /\ held[r] + canceled[r] < MaxOrders
        /\ Begin(p, [op |-> "upload", r |-> r])

\* Under the row lock only the caps are asked again.
CommitUpload(p) ==
    /\ job[p].op = "upload"
    /\ held[job[p].r] + canceled[job[p].r] < MaxOrders
    /\ TakeSlot(job[p].r)
    /\ Finish(p)
    /\ UNCHANGED canceled

\* A canceled order turns out to be paid.
Recover(r) ==
    /\ canceled[r] > 0
    /\ TakeSlot(r)
    /\ canceled' = [canceled EXCEPT ![r] = @ - 1]
    /\ UNCHANGED job

-----------------------------------------------------------------------------
(* A canceled order gives its slot back *)

CancelOrder(p) ==
    /\ job[p] = Idle
    /\ \E r \in Requisites :
        /\ Exists(r)
        /\ held[r] > 0
        /\ held' = [held EXCEPT ![r] = @ - 1]
        /\ canceled' = [canceled EXCEPT ![r] = @ + 1]
        /\ Set(p, [op |-> "release", r |-> r])
    /\ UNCHANGED <<group, longOff, row, history>>

ReadUsage(p) ==
    /\ job[p].op = "release"
    /\ LET r == job[p].r
       IN  /\ Exists(r)
           /\ Set(p, [op |-> "read", r |-> r, seen |-> row[r].ops])
    /\ UNCHANGED <<group, longOff, row, orders, history>>

Released(r, seen) == [row[r] EXCEPT !.ops = AtLeastZero(seen - 1),
                                    !.amount = AtLeastZero(seen - 1)]

\* Mutant: whatever the reason, the requisite is switched on again.
ReenablesAny(r, seen) ==
    /\ ~row[r].active
    /\ GroupOn(GroupOf[r])
    /\ ~Full(Released(r, seen))
    /\ NumberIsFree(r)

\* maybeAutoReenableAfterLimitReleaseInTransaction
Reenables(r, seen) ==
    /\ ~row[r].active
    /\ row[r].reason \in LimitReasons
    /\ GroupOn(GroupOf[r])
    /\ ~Full(Released(r, seen))
    /\ NumberIsFree(r)

\* The row is locked by its update; the group and the other requisites are read.
WriteUsage(p) ==
    /\ job[p].op = "read"
    /\ LET r == job[p].r
       IN  /\ Writable(r)
           /\ Set(p, [op |-> "releasing", r |-> r, seen |-> job[p].seen,
                      active |-> Reenables(r, job[p].seen)])
    /\ UNCHANGED <<group, longOff, row, orders, history>>

CommitRelease(p) ==
    /\ job[p].op = "releasing"
    /\ LET r == job[p].r
           released == Released(r, job[p].seen)
       IN  /\ job[p].active => IndexAllows(r)
           /\ row' = [row EXCEPT ![r] =
                         IF job[p].active
                         THEN [released EXCEPT !.active = TRUE, !.reason = "NONE"]
                         ELSE released]
    /\ Finish(p)
    /\ UNCHANGED <<group, longOff, orders, history>>

-----------------------------------------------------------------------------

\* A release throws when its requisite is gone, or switching it on breaks the
\* index; the order stays CANCELED and its slot taken.
ReleaseThrows(p) ==
    \/ ~Exists(job[p].r)
    \/ job[p].op = "releasing" /\ job[p].active /\ ~IndexAllows(job[p].r)

\* The call ends with an error, and its transaction is rolled back.
Fail(p) ==
    /\ job[p] # Idle
    /\ \/ job[p].op \in {"create", "activate", "limit", "upload"}
       \/ ReleaseThrows(p)
       \/ MayFail
    /\ Finish(p)
    /\ UNCHANGED <<group, longOff, row, orders, history>>

Handler(p) ==
    \/ BeginCreate(p)   \/ CommitCreate(p)
    \/ BeginActivate(p) \/ CommitActivate(p)
    \/ BeginUpdate(p)   \/ CommitUpdate(p)
    \/ BeginUpload(p)   \/ CommitUpload(p)
    \/ CancelOrder(p)   \/ ReadUsage(p) \/ WriteUsage(p) \/ CommitRelease(p)
    \/ Fail(p)

Next ==
    \/ \E p \in Handlers : Handler(p)
    \/ \E g \in Groups : \/ CreateGroup(g)
                         \/ SwitchGroupOn(g)
                         \/ SwitchGroupOff(g)
                         \/ WeekPasses(g)
    \/ ArchiveInactiveGroups
    \/ \E r \in Requisites : Deactivate(r) \/ Delete(r) \/ Recover(r)

Spec == Init /\ [][Next]_vars

-----------------------------------------------------------------------------
(* Properties *)

\* Two active requisites never have one number, though edits look for it before
\* they write and a release switches requisites on by itself.
OneActivePerNumber ==
    \A r, other \in Requisites :
        r # other /\ Active(r) /\ Active(other) => Number[r] # Number[other]

\* A requisite is active in a group that is off or archived only if the group
\* was switched off under a call that had seen it on.
ActiveInLiveGroup == \A r \in Requisites : Active(r) => GroupOn(GroupOf[r]) \/ r \in raced

\* What was switched off by hand, with its group or alone, comes on by hand only,
\* unless an order has meanwhile made a cap the reason.
OffStaysOff == \A r \in Requisites : Active(r) => r \in wanted \cup overwritten
=============================================================================
