--------------------------- MODULE MissionManager ---------------------------
(***************************************************************************)
(* The MAVLink mission protocol (modules/mavlink_new/mavlink_mission.cpp): *)
(* one MavlinkMissionManager per MAVLink instance, each run by the         *)
(* receiver thread of its instance.  They share the static members, without*)
(* a lock, and the storage behind the data manager, in which every kind of *)
(* plan has two areas: the active one and the one uploads are written to.  *)
(*                                                                         *)
(* A handler runs to its next call of the data manager, where its thread   *)
(* blocks and the other instances go on; handle_mission_count is also      *)
(* split between its test of _transfer_in_progress and the assignment.     *)
(* The partners may send any message at any time, which covers every loss, *)
(* repetition and reordering on the link; 5 s without a message may pass   *)
(* at any time too.  What changes nothing is left out: a message that is   *)
(* answered with an error, or does not come from the partner of the        *)
(* transfer, and the repeated requests of send.                            *)
(*                                                                         *)
(* A checksum is the sequence of items it was computed from.  Of what is   *)
(* sent the model keeps the ACCEPTED of an upload and what MISSION_COUNT   *)
(* announced.  The current item, the land markers and the coordinate mode  *)
(* are left out.                                                           *)
(***************************************************************************)
EXTENDS Naturals, Sequences, SequencesExt

CONSTANTS Instances,    \* the MAVLink instances
          StatTypes,    \* the plans kept as statistics, in the order CLEAR_ALL clears them
          Items,        \* valid items
          MaxItems,     \* MAX_COUNT
          MaxCommands,  \* bound: commands that open a transfer or change a plan
          MaxFaults     \* bound: failed accesses to the saved state and losses of power

Mission == "mission"
Types == {Mission} \cup ToSet(StatTypes)
None == "none"
Invalid == "invalid"    \* an item that cannot be parsed or is not of the plan's kind

ASSUME MissionAssumption ==
    /\ StatTypes \in Seq(ToSet(StatTypes))
    /\ Mission \notin ToSet(StatTypes)
    /\ {None, Invalid} \cap Items = {}
    /\ {MaxItems, MaxCommands, MaxFaults} \subseteq Nat

VARIABLES
  static,     \* the static members: id, count, crc of each type, and busy
  mgr,        \* the members of each instance
  call,       \* the call its thread is blocked in, and what remains to be done
  store,      \* the items in both areas of each type
  saved,      \* DM_KEY_MISSION_STATE and the statistics of the other types
  topic,      \* the mission topic
  fresh,      \* _mission_sub.updated() of each instance
  accepted,   \* the instances whose upload the last step answered with ACCEPTED
  changed,    \* history: the downloads whose plan has not been active since it was announced
  raced,      \* history: the instances have got in each other's way
  spent       \* what the bounds count

shared == <<static, store, saved, topic>>
vars == <<static, mgr, call, store, saved, topic, fresh, accepted, changed, raced, spent>>

Other(id) == 1 - id
NoPlan == [id |-> 0, count |-> 0, crc |-> <<>>]
NoCall == [op |-> None]

\* The members of an idle instance; those that are assigned before they are read
\* again have no value of their own.
Idle(my) ==
    [state |-> "IDLE", type |-> Mission, seq |-> 0, count |-> 0, id |-> 0, crc |-> <<>>,
     my |-> my,
     announced |-> NoPlan]     \* history: what the last MISSION_COUNT of a download said

NewManager(plans) == Idle([t \in Types |-> plans[t].id])

\* A plan of each type was stored before the vehicle was started.
Init == \E x \in Items :
    LET items == [n \in 1..MaxItems |-> x]
        plans == [t \in Types |-> [id |-> 0, count |-> MaxItems, crc |-> items]] IN
    /\ static = [busy |-> FALSE, plan |-> plans]
    /\ mgr = [i \in Instances |-> NewManager(plans)]
    /\ call = [i \in Instances |-> NoCall]
    /\ store = [t \in Types |-> [id \in 0..1 |-> [n \in 0..MaxItems - 1 |->
                  IF id = 0 THEN items[n + 1] ELSE None]]]
    /\ saved = plans
    /\ topic = plans
    /\ fresh = [i \in Instances |-> FALSE]
    /\ accepted = {}
    /\ changed = {}
    /\ raced = FALSE
    /\ spent = [commands |-> 0, faults |-> 0, restarts |-> 0]
-----------------------------------------------------------------------------
Ready(i) == call[i].op = None
Spend(what) == spent' = [spent EXCEPT ![what] = @ + 1]
Command == spent.commands < MaxCommands /\ Spend("commands")
MayFail == spent.faults + spent.restarts < MaxFaults
\* An access to the saved state succeeds or is the fault of a behaviour.
Access(ok) == IF ok THEN UNCHANGED spent ELSE MayFail /\ Spend("faults")

NoReply == accepted' = {}

Call(i, c) == call' = [call EXCEPT ![i] = c]
Return(i) == Call(i, NoCall)
Released(s) == [s EXCEPT !.busy = FALSE]
\* switch_to_idle_state
SwitchToIdle(m, i) == [m EXCEPT ![i] = Idle(@.my)]

Receiving(i, t) == mgr[i].state = "GETLIST" /\ mgr[i].type = t
Switching(i, t) == \/ call[i].op = "state" /\ t = Mission
                   \/ call[i].op = "stats" /\ call[i].type = t
Loading(i, t) == \/ call[i].op = "load" /\ mgr[i].type = t
                 \/ call[i].op = "check" /\ Head(call[i].todo) = t
Claiming(i, t) == call[i].op = "claim" /\ call[i].type = t
Reading(i, t) == call[i].op = "read" /\ mgr[i].type = t

\* What lets plans, areas and saved state come apart without any failure: two uploads
\* of one type; two changes of it at once; statistics that are loaded, or an upload
\* or the reading of an item that begins, during a change; an old topic that replaces a newer plan.
Race ==
    \/ \E t \in Types : \E i, j \in Instances :
        /\ i # j
        /\ \/ Receiving(i, t)' /\ Receiving(j, t)'
           \/ Switching(i, t)' /\ Switching(j, t)'
           \/ Switching(i, t) /\ (Loading(j, t) \/ Claiming(j, t))
           \/ Switching(i, t) /\ ~Reading(j, t) /\ Reading(j, t)'
    \/ \E i \in Instances :
        /\ call[i].op = "check" \/ (fresh[i] /\ ~fresh'[i])
        /\ static'.plan[Mission] # static.plan[Mission]

\* The last conjunct of every action
History ==
    /\ raced' = (raced \/ Race)
    /\ changed' = {i \in Instances :
         /\ mgr'[i].state = "SENDLIST" /\ call'[i].op # "load"
         /\ \/ static'.plan[mgr'[i].type] # mgr'[i].announced
            \/ i \in changed /\ mgr'[i].announced = mgr[i].announced}
-----------------------------------------------------------------------------
(* Changes of a plan                                                        *)

Then(what, todo) == [what |-> what, todo |-> todo]
Cleared(t) == [id |-> Other(static.plan[t].id), count |-> 0, crc |-> <<>>]

\* update_active_mission up to its write: the members change first, and what it
\* publishes after the write is what they were before it.
BeginActive(i, m, plan, busy, then) ==
    LET plans == [static.plan EXCEPT ![Mission] = plan] IN
    /\ static' = [busy |-> busy, plan |-> plans]
    /\ mgr' = [m EXCEPT ![i].my[Mission] = plan.id]
    /\ Call(i, [op |-> "state", pub |-> plans, then |-> then])

\* update_geofence_count and update_safepoint_count up to their write: the area
\* changes first, count and checksum only when the write has succeeded.
BeginStats(i, m, t, plan, busy, then) ==
    /\ static' = [busy |-> busy, plan |-> [static.plan EXCEPT ![t].id = plan.id]]
    /\ mgr' = [m EXCEPT ![i].my[t] = plan.id]
    /\ Call(i, [op |-> "stats", type |-> t, plan |-> plan, then |-> then])

Begin(i, m, t, plan, busy, then) ==
    IF t = Mission THEN BeginActive(i, m, plan, busy, then)
    ELSE BeginStats(i, m, t, plan, busy, then)

\* What the callers of the three do when they return; s and m are the members
\* after the write.
Finish(i, s, m, failed) ==
    LET then == call[i].then IN
    \/ /\ then.what = "count"
       /\ static' = Released(s)
       /\ mgr' = m
       /\ Return(i)
       /\ NoReply
    \/ /\ then.what = "upload"
       /\ static' = Released(s)
       /\ mgr' = SwitchToIdle(m, i)
       /\ Return(i)
       /\ accepted' = IF failed THEN {} ELSE {i}
    \/ /\ then.what = "clear"
       /\ static' = s
       /\ mgr' = m
       /\ Call(i, [op |-> "clear", todo |-> then.todo])
       /\ NoReply
    \/ /\ then.what = "current"
       /\ static' = s
       /\ mgr' = m
       /\ Return(i)
       /\ NoReply

Publish(plans) ==
    /\ topic' = plans
    /\ fresh' = [j \in Instances |-> TRUE]

\* The write of update_active_mission returns; that it failed is only logged, and
\* a write that is reported as failed may have been done.
StateWritten(i, ok, done) ==
    LET pub == call[i].pub IN
    /\ call[i].op = "state"
    /\ ok => done
    /\ Access(ok)
    /\ saved' = IF done THEN [saved EXCEPT ![Mission] = pub[Mission]] ELSE saved
    /\ Publish(pub)
    /\ Finish(i, static, mgr, FALSE)
    /\ UNCHANGED store
    /\ History

\* Mutant of Counted: the checksum is forgotten.
CountedOnly(t, plan) == [static EXCEPT !.plan[t].count = plan.count]

Counted(t, plan) == [static EXCEPT !.plan[t].count = plan.count, !.plan[t].crc = plan.crc]

\* The write of update_geofence_count or update_safepoint_count returns.
StatsWritten(i, ok, done) ==
    LET t == call[i].type
        plan == call[i].plan
        s == Counted(t, plan)
    IN
    /\ call[i].op = "stats"
    /\ ok => done
    /\ Access(ok)
    /\ saved' = IF done THEN [saved EXCEPT ![t] = plan] ELSE saved
    /\ IF ok
       THEN /\ Publish(s.plan)
            /\ Finish(i, s, [mgr EXCEPT ![i].my[Mission] = s.plan[Mission].id], FALSE)
       ELSE /\ UNCHANGED <<topic, fresh>>
            /\ Finish(i, static, mgr, TRUE)
    /\ UNCHANGED store
    /\ History
-----------------------------------------------------------------------------
(* Uploads                                                                  *)

\* Mutants: one item too many is accepted; an upload is written over the active plan.
TooManyItems(n) == n > MaxItems + 1
UploadAreaActive(t) == static.plan[t].id

TooMany(n) == n > MaxItems
UploadArea(t) == Other(static.plan[t].id)

\* handle_mission_count up to the test of _transfer_in_progress
HandleCount(i, t, n) ==
    /\ Ready(i)
    /\ mgr[i].state = "IDLE" /\ ~static.busy
    /\ Command
    /\ Call(i, [op |-> "claim", type |-> t, count |-> n])
    /\ NoReply
    /\ UNCHANGED <<shared, mgr, fresh>>
    /\ History

Receiver(my, t, n) ==
    [state |-> "GETLIST", type |-> t, seq |-> 0, count |-> n, id |-> UploadArea(t), crc |-> <<>>,
     my |-> my, announced |-> NoPlan]

\* ... and from the assignment on
Claim(i) ==
    LET c == call[i] IN
    /\ c.op = "claim"
    /\ \/ /\ TooMany(c.count)
          /\ static' = Released(static)
          /\ Return(i)
          /\ UNCHANGED mgr
       \/ /\ c.count = 0
          /\ Begin(i, mgr, c.type, Cleared(c.type), TRUE, Then("count", <<>>))
       \/ /\ c.count > 0 /\ ~TooMany(c.count)
          /\ static' = [static EXCEPT !.busy = TRUE]
          /\ mgr' = [mgr EXCEPT ![i] = Receiver(@.my, c.type, c.count)]
          /\ Return(i)
    /\ NoReply
    /\ UNCHANGED <<store, saved, topic, fresh, spent>>
    /\ History

\* Mutant of Abort: the flag stays.
AbortHolding(i) ==
    /\ mgr' = SwitchToIdle(mgr, i)
    /\ NoReply
    /\ UNCHANGED static

\* The upload ends without a new plan, and others may begin.
Abort(i) ==
    /\ mgr' = SwitchToIdle(mgr, i)
    /\ static' = Released(static)
    /\ NoReply

\* handle_mission_item_both up to the write
HandleItem(i, t, n, x) ==
    /\ Ready(i)
    /\ mgr[i].state = "GETLIST" /\ mgr[i].type = t /\ mgr[i].seq = n
    /\ \/ /\ x = Invalid
          /\ Abort(i)
          /\ UNCHANGED call
       \/ /\ x \in Items
          /\ mgr' = [mgr EXCEPT ![i].crc = Append(@, x)]
          /\ Call(i, [op |-> "item", item |-> x])
          /\ NoReply
          /\ UNCHANGED static
    /\ UNCHANGED <<store, saved, topic, fresh, spent>>
    /\ History

\* Mutants: the plan is complete one item too early; plans of one length are the same.
CompleteEarly(m) == m.seq + 1 >= m.count
SameCount(m) == m.count = static.plan[m.type].count

Complete(m) == m.seq = m.count
SamePlan(m) == m.crc = static.plan[m.type].crc

\* The write of the item returns: the next one is requested, or the plan is complete
\* and, if it differs from the active one, becomes active.
ItemWritten(i, ok, done) ==
    LET m == [mgr EXCEPT ![i].seq = @ + 1]
        t == mgr[i].type
        plan == [id |-> mgr[i].id, count |-> mgr[i].count, crc |-> mgr[i].crc]
    IN
    /\ call[i].op = "item"
    /\ ok => done
    /\ store' = IF done THEN [store EXCEPT ![t][plan.id][mgr[i].seq] = call[i].item] ELSE store
    /\ \/ /\ ~ok
          /\ Abort(i)
          /\ Return(i)
       \/ /\ ok /\ ~Complete(m[i])
          /\ mgr' = m
          /\ NoReply
          /\ Return(i)
          /\ UNCHANGED static
       \/ /\ ok /\ Complete(m[i]) /\ ~SamePlan(m[i])
          /\ Begin(i, m, t, plan, static.busy, Then("upload", <<>>))
          /\ NoReply
       \/ /\ ok /\ Complete(m[i]) /\ SamePlan(m[i])
          /\ mgr' = SwitchToIdle(m, i)
          /\ static' = Released(static)
          /\ accepted' = {i}
          /\ Return(i)
    /\ UNCHANGED <<saved, topic, fresh, spent>>
    /\ History
-----------------------------------------------------------------------------
(* Downloads                                                                *)

\* The end of handle_mission_request_list, with the members as they are then.
SendList(i, m, plan) ==
    mgr' = [m EXCEPT ![i].seq = 0, ![i].count = plan.count, ![i].announced = plan]

HandleRequestList(i, t) ==
    LET m == mgr[i]
        sent == m.state = "SENDLIST" /\ m.seq = static.plan[m.type].count
        next == [mgr EXCEPT ![i].state = "SENDLIST", ![i].type = t]
    IN
    /\ Ready(i)
    /\ m.state = "IDLE" \/ sent \/ (m.state = "SENDLIST" /\ m.type = t)
    /\ Command
    /\ IF t = Mission
       THEN SendList(i, next, static.plan[t]) /\ UNCHANGED call
       ELSE mgr' = next /\ Call(i, [op |-> "load"])
    /\ NoReply
    /\ UNCHANGED <<shared, fresh>>
    /\ History

\* load_geofence_stats, load_safepoint_stats
Load(t, ok) == IF ok THEN [static EXCEPT !.plan[t] = saved[t]] ELSE static
Loaded(i, t, ok) == IF ok THEN [mgr EXCEPT ![i].my[t] = saved[t].id] ELSE mgr

ListLoaded(i, ok) ==
    LET t == mgr[i].type IN
    /\ call[i].op = "load"
    /\ Access(ok)
    /\ static' = Load(t, ok)
    /\ SendList(i, Loaded(i, t, ok), static'.plan[t])
    /\ Return(i)
    /\ NoReply
    /\ UNCHANGED <<store, saved, topic, fresh>>
    /\ History

\* Mutant of ReadArea: the area this instance last heard of.
ReadAreaHeard(i, t) == mgr[i].my[t]

ReadArea(i, t) == static.plan[t].id

\* handle_mission_request_both up to the read, whose area is the active one now
HandleRequest(i, t, n) ==
    LET m == mgr[i]
        next == n = m.seq /\ m.seq < m.count
        expected == next \/ n + 1 = m.seq
        moved == [mgr EXCEPT ![i].seq = IF next THEN n + 1 ELSE @]
    IN
    /\ Ready(i)
    /\ m.state = "SENDLIST" /\ m.type = t
    /\ \/ /\ expected /\ n < static.plan[t].count
          /\ mgr' = moved
          /\ Call(i, [op |-> "read", seq |-> n, id |-> ReadArea(i, t)])
       \/ /\ ~(expected /\ n < static.plan[t].count)
          /\ mgr' = SwitchToIdle(mgr, i)
          /\ UNCHANGED call
    /\ NoReply
    /\ UNCHANGED <<shared, fresh, spent>>
    /\ History

\* send_mission_item: the item, or an error that leaves the transfer as it is
ItemRead(i) ==
    /\ call[i].op = "read"
    /\ Return(i)
    /\ NoReply
    /\ UNCHANGED <<shared, mgr, fresh, spent>>
    /\ History

\* handle_mission_ack
HandleAck(i, t, type) ==
    LET m == mgr[i] IN
    /\ Ready(i)
    /\ \/ /\ m.state = "SENDLIST" /\ m.type = t
          /\ UNCHANGED static
       \/ /\ m.state = "GETLIST" /\ type = "CANCELLED"
          /\ static' = Released(static)
    /\ mgr' = SwitchToIdle(mgr, i)
    /\ NoReply
    /\ UNCHANGED <<call, store, saved, topic, fresh, spent>>
    /\ History
-----------------------------------------------------------------------------
(* Commands                                                                 *)

\* handle_mission_set_current: the plan stays, but is written and published again
HandleSetCurrent(i) ==
    /\ Ready(i)
    /\ mgr[i].state = "IDLE"
    /\ static.plan[Mission].count > 0
    /\ Command
    /\ BeginActive(i, mgr, static.plan[Mission], static.busy, Then("current", <<>>))
    /\ NoReply
    /\ UNCHANGED <<store, saved, topic, fresh>>
    /\ History

\* handle_mission_clear_all of one type, which does not look at _transfer_in_progress
HandleClear(i, t) ==
    /\ Ready(i)
    /\ mgr[i].state = "IDLE"
    /\ Command
    /\ Begin(i, mgr, t, Cleared(t), static.busy, Then("clear", <<>>))
    /\ NoReply
    /\ UNCHANGED <<store, saved, topic, fresh>>
    /\ History

\* ... and of all of them, one after the other
HandleClearAll(i) ==
    /\ Ready(i)
    /\ mgr[i].state = "IDLE"
    /\ Command
    /\ BeginActive(i, mgr, Cleared(Mission), static.busy,
                   Then("clear", StatTypes))
    /\ NoReply
    /\ UNCHANGED <<store, saved, topic, fresh>>
    /\ History

ClearNext(i) ==
    LET todo == call[i].todo IN
    /\ call[i].op = "clear"
    /\ IF todo = <<>>
       THEN Return(i) /\ UNCHANGED <<static, mgr>>
       ELSE BeginStats(i, mgr, Head(todo), Cleared(Head(todo)), static.busy,
                       Then("clear", Tail(todo)))
    /\ NoReply
    /\ UNCHANGED <<store, saved, topic, fresh, spent>>
    /\ History
-----------------------------------------------------------------------------
(* What the receiver thread does between messages                           *)

\* send: no message for 5 s.  The flag is cleared even if the transfer that is given
\* up is a download and another instance holds it.
Timeout(i) ==
    /\ Ready(i)
    /\ mgr[i].state # "IDLE"
    /\ mgr' = SwitchToIdle(mgr, i)
    /\ static' = Released(static)
    /\ NoReply
    /\ UNCHANGED <<call, store, saved, topic, fresh, spent>>
    /\ History

\* send: MISSION_COUNT again, with the old count and the checksum of now
RepeatCount(i) ==
    LET m == mgr[i] IN
    /\ Ready(i)
    /\ m.state = "SENDLIST" /\ m.seq = 0
    /\ mgr' = [mgr EXCEPT ![i].announced = [static.plan[m.type] EXCEPT !.count = m.count]]
    /\ NoReply
    /\ UNCHANGED <<shared, call, fresh, spent>>
    /\ History

Differs(i, s, m, t, of) == of[t].crc # s.plan[t].crc \/ m[i].my[t] # of[t].id

\* check_active_mission with the members s and m: the first of the types todo whose
\* statistics differ from the topic is loaded, and when none does the mission is
\* taken from the topic.
Check(i, s, m, todo, of) ==
    LET differ == {k \in DOMAIN todo : Differs(i, s, m, todo[k], of)} IN
    IF differ # {}
    THEN /\ static' = s
         /\ mgr' = m
         /\ Call(i, [op |-> "check", of |-> of, todo |-> SubSeq(todo, Min(differ), Len(todo))])
    ELSE /\ static' = [s EXCEPT !.plan[Mission] =
                          IF Differs(i, s, m, Mission, of) THEN of[Mission] ELSE @]
         /\ mgr' = [m EXCEPT ![i].my[Mission] = of[Mission].id]
         /\ Return(i)

CheckActive(i) ==
    /\ Ready(i)
    /\ fresh[i]
    /\ fresh' = [fresh EXCEPT ![i] = FALSE]
    /\ Check(i, static, mgr, StatTypes, topic)
    /\ NoReply
    /\ UNCHANGED <<store, saved, topic, spent>>
    /\ History

CheckLoaded(i, ok) ==
    LET c == call[i] IN
    /\ c.op = "check"
    /\ Access(ok)
    /\ Check(i, Load(Head(c.todo), ok), Loaded(i, Head(c.todo), ok), Tail(c.todo), c.of)
    /\ NoReply
    /\ UNCHANGED <<store, saved, topic, fresh>>
    /\ History

\* The vehicle loses power and starts again; the constructor of the first instance
\* reads what was saved, as far as the data manager can, and the others take it over.
Restart(readable) ==
    LET plans == [t \in Types |-> IF t \in readable THEN saved[t] ELSE NoPlan] IN
    /\ readable = {} \/ Mission \in readable
    /\ MayFail
    /\ spent' = [spent EXCEPT !.restarts = @ + 1, !.faults = IF readable = Types THEN @ ELSE @ + 1]
    /\ static' = [busy |-> FALSE, plan |-> plans]
    /\ mgr' = [i \in Instances |-> NewManager(plans)]
    /\ call' = [i \in Instances |-> NoCall]
    /\ Publish(plans)
    /\ NoReply
    /\ changed' = {}
    /\ UNCHANGED <<store, saved, raced>>
-----------------------------------------------------------------------------
Receive(i) ==
    \/ \E t \in Types :
        \/ \E n \in 0..MaxItems + 1 : HandleCount(i, t, n)
        \/ \E n \in 0..MaxItems - 1, x \in Items \cup {Invalid} : HandleItem(i, t, n, x)
        \/ HandleRequestList(i, t)
        \/ \E n \in 0..MaxItems : HandleRequest(i, t, n)
        \/ \E type \in {"ACCEPTED", "CANCELLED"} : HandleAck(i, t, type)
        \/ HandleClear(i, t)
    \/ HandleClearAll(i)
    \/ HandleSetCurrent(i)

\* The data manager answers, or the thread goes on
Resume(i) ==
    \/ Claim(i)
    \/ ClearNext(i)
    \/ ItemRead(i)
    \/ \E ok \in BOOLEAN : ListLoaded(i, ok) \/ CheckLoaded(i, ok)
    \/ \E ok, done \in BOOLEAN :
        StateWritten(i, ok, done) \/ StatsWritten(i, ok, done) \/ ItemWritten(i, ok, done)

Wait(i) ==
    \/ Timeout(i)
    \/ RepeatCount(i)
    \/ CheckActive(i)

Next ==
    \/ \E i \in Instances : Receive(i) \/ Resume(i) \/ Wait(i)
    \/ \E readable \in SUBSET Types : Restart(readable)

Spec == Init /\ [][Next]_vars
-----------------------------------------------------------------------------
Plan == [id : 0..1, count : 0..MaxItems, crc : Seq(Items)]
Plans == [Types -> Plan]
Calls ==
    {NoCall}
    \cup [op : {"claim"}, type : Types, count : 0..MaxItems + 1]
    \cup [op : {"item"}, item : Items]
    \cup [op : {"load"}]
    \cup [op : {"read"}, seq : 0..MaxItems, id : 0..1]
    \cup [op : {"clear"}, todo : Seq(ToSet(StatTypes))]
    \cup [op : {"check"}, of : Plans, todo : Seq(ToSet(StatTypes))]
    \cup [op : {"state"}, pub : Plans,
          then : [what : {"count", "upload", "clear", "current"}, todo : Seq(ToSet(StatTypes))]]
    \cup [op : {"stats"}, type : ToSet(StatTypes), plan : Plan,
          then : [what : {"count", "upload", "clear"}, todo : Seq(ToSet(StatTypes))]]

\* The types of the variables.
TypeOK ==
    /\ static \in [busy : BOOLEAN, plan : Plans]
    /\ mgr \in [Instances -> [state : {"IDLE", "GETLIST", "SENDLIST"}, type : Types,
                              seq : 0..MaxItems, count : 0..MaxItems, id : 0..1, crc : Seq(Items),
                              my : [Types -> 0..1], announced : Plan]]
    /\ call \in [Instances -> Calls]
    /\ store \in [Types -> [0..1 -> [0..MaxItems - 1 -> Items \cup {None}]]]
    /\ saved \in Plans
    /\ topic \in Plans
    /\ fresh \in [Instances -> BOOLEAN]
    /\ accepted \subseteq Instances
    /\ changed \subseteq Instances
    /\ raced \in BOOLEAN
    /\ spent \in [commands : Nat, faults : Nat, restarts : Nat]

HasAll(t, plan) ==
    /\ plan.count = Len(plan.crc)
    /\ \A n \in 1..Len(plan.crc) : store[t][plan.id][n - 1] = plan.crc[n]

Quiet == \A i \in Instances : Ready(i) /\ ~fresh[i]
NoFault == ~raced /\ spent.faults = 0

\* The area that the saved state points to holds the plan whose checksum it holds, at
\* every moment, so that a loss of power in the middle of an upload or a change leaves
\* a whole plan.  This is what the two areas are for (handle_mission_count chooses the
\* inactive one, the state is written after the last item).
SavedIntact == NoFault => \A t \in Types : HasAll(t, saved[t])

\* The same for the plan that the vehicle flies, which is switched in memory before it
\* is saved, even if writes of the state fail, as long as the vehicle stays on.
MissionIntact ==
    ~raced /\ (spent.faults = 0 \/ spent.restarts = 0) => HasAll(Mission, static.plan[Mission])

\* When nothing is under way, the instances and the saved state agree on every plan,
\* although a plan reaches them through the static members, the mission topic and the
\* statistics read back (update_active_mission, check_active_mission).
Agree == NoFault /\ Quiet => static.plan = saved

\* _transfer_in_progress is never left behind: while it is set, some instance receives
\* an upload, or clears a plan on behalf of a MISSION_COUNT of 0.  Left behind it would
\* refuse every upload until the next timeout.
FlagHeld ==
    static.busy =>
        \E i \in Instances :
            \/ mgr[i].state = "GETLIST"
            \/ call[i].op \in {"state", "stats"} /\ call[i].then.what = "count"

\* When an upload is answered with ACCEPTED, the plan that was received is the saved one
\* (the last part of handle_mission_item_both; an upload with the checksum of the active
\* plan is accepted without being stored).
AcceptedIsSaved ==
    [][\A i \in Instances :
         i \in accepted' /\ ~raced /\ spent'.faults = 0
         => saved'[mgr[i].type].crc = mgr[i].crc]_vars

\* An item that is sent is the item at its place in the plan that was announced, if that
\* plan has been active ever since, whatever others upload meanwhile.
DownloadFaithful ==
    [][\A i \in Instances :
         LET t == mgr[i].type
             n == call[i].seq
         IN
         /\ call[i].op = "read" /\ call'[i] = NoCall
         /\ NoFault /\ i \notin changed
         => store[t][call[i].id][n] = mgr[i].announced.crc[n + 1]]_vars
=============================================================================
