------------------------ MODULE MissionManagerProofs ------------------------
(***************************************************************************)
(* What holds of the plans for any number of instances, kinds of plans,    *)
(* items and commands.  The inductive invariant adds to the types in which *)
(* state a blocked instance is (Control, Uploads), that a plan is changed  *)
(* and received by one instance at a time unless a race is recorded        *)
(* (Alone), that the area an upload is written to is not one of a plan     *)
(* that is used (Written, SavedWhole, FlownWhole), and how the plan in     *)
(* memory differs from the saved one during a change (Synchronous).        *)
(***************************************************************************)
EXTENDS MissionManager, SequenceTheorems, WellFoundedInduction, TLAPS

\* The plan that a change under way is about to make the saved one
InFlight(i) == IF call[i].op = "state" THEN call[i].pub[Mission] ELSE call[i].plan
Upload(i) == [id |-> mgr[i].id, count |-> mgr[i].count, crc |-> mgr[i].crc]
Changing(i) == call[i].op \in {"state", "stats"}

\* The state in which an instance waits for each of its calls.
ControlOf(i) ==
    /\ call[i].op \in {"claim", "clear"} => mgr[i].state = "IDLE"
    /\ call[i].op = "item" => mgr[i].state = "GETLIST"
    /\ call[i].op \in {"load", "read"} => mgr[i].state = "SENDLIST"
    /\ call[i].op = "load" => mgr[i].type # Mission
    /\ call[i].op = "check" => call[i].todo # <<>>
    /\ Changing(i) =>
        IF call[i].then.what = "upload"
        THEN mgr[i].state = "GETLIST" /\ Switching(i, mgr[i].type) /\ InFlight(i) = Upload(i)
        ELSE /\ mgr[i].state = "IDLE"
             /\ \/ InFlight(i).count = 0 /\ InFlight(i).crc = <<>>
                \/ call[i].op = "state" /\ call[i].then.what = "current"

Control == \A i \in Instances : ControlOf(i)

\* How far an upload has come.
UploadOf(i) ==
    mgr[i].state = "GETLIST" =>
        /\ Len(mgr[i].crc) = mgr[i].seq + (IF call[i].op = "item" THEN 1 ELSE 0)
        /\ IF Changing(i) THEN mgr[i].seq = mgr[i].count ELSE mgr[i].seq < mgr[i].count
        /\ call[i].op = "item" => mgr[i].crc[Len(mgr[i].crc)] = call[i].item

Uploads == \A i \in Instances : UploadOf(i)

\* Unless a race is recorded, one instance receives a plan and one changes it.
Alone ==
    ~raced => \A t \in Types : \A i, j \in Instances : i # j =>
        /\ ~(Receiving(i, t) /\ Receiving(j, t))
        /\ ~(Switching(i, t) /\ Switching(j, t))

\* What has been stored is what was received.
WrittenOf(i) ==
    mgr[i].state = "GETLIST" =>
        \A n \in 1..mgr[i].seq : store[mgr[i].type][mgr[i].id][n - 1] = mgr[i].crc[n]

Written == ~raced => \A i \in Instances : WrittenOf(i)

\* An area has all items of a plan.
Holds(s, t, plan) ==
    /\ plan.count = Len(plan.crc)
    /\ \A n \in 1..Len(plan.crc) : s[t][plan.id][n - 1] = plan.crc[n]

\* The instances that may write to an area
Writing(i, t) == Receiving(i, t) /\ ~Changing(i)

\* What they write does no harm to the plan.
Apart(i, plan) == plan.crc = <<>> \/ plan.id # mgr[i].id

\* The saved plan, and the one about to be saved, are whole and are not written to.
SavedWhole ==
    NoFault => \A t \in Types :
        /\ Holds(store, t, saved[t])
        /\ \A i \in Instances : Switching(i, t) => Holds(store, t, InFlight(i))
        /\ \A i \in Instances : Writing(i, t) =>
            /\ Apart(i, saved[t])
            /\ \A j \in Instances : Switching(j, t) => Apart(i, InFlight(j))

\* How the plan in memory differs from the saved one during a change.
Synchronous ==
    NoFault =>
        /\ \A t \in Types : (\A i \in Instances : ~Switching(i, t)) => static.plan[t] = saved[t]
        /\ \A t \in Types, i \in Instances : Switching(i, t) =>
            /\ t = Mission => static.plan[t] = InFlight(i)
            /\ t # Mission => static.plan[t] = [saved[t] EXCEPT !.id = InFlight(i).id]
            /\ call[i].then.what = "current" => InFlight(i) = saved[t]

Flown == ~raced /\ (spent.faults = 0 \/ spent.restarts = 0)

\* The plan of the mission in memory is whole and is not written to.
FlownWhole ==
    Flown =>
        /\ Holds(store, Mission, static.plan[Mission])
        /\ \A i \in Instances : Switching(i, Mission) => InFlight(i) = static.plan[Mission]
        /\ \A i \in Instances : Writing(i, Mission) => Apart(i, static.plan[Mission])

IInv == /\ TypeOK /\ Control /\ Uploads /\ FlagHeld
        /\ Alone /\ Written /\ SavedWhole /\ Synchronous /\ FlownWhole
-----------------------------------------------------------------------------
(* Types                                                                    *)

Manager == [state : {"IDLE", "GETLIST", "SENDLIST"}, type : Types,
            seq : 0..MaxItems, count : 0..MaxItems, id : 0..1, crc : Seq(Items),
            my : [Types -> 0..1], announced : Plan]
Statics == [busy : BOOLEAN, plan : Plans]

LEMMA PlanTypes ==
    /\ Mission \in Types /\ ToSet(StatTypes) \subseteq Types
    /\ MaxItems \in Nat
    /\ NoPlan \in Plan
    /\ \A x \in 0..1 : Other(x) \in 0..1 /\ Other(x) # x
    /\ static \in Statics => \A t \in Types : static.plan[t] \in Plan /\ Cleared(t) \in Plan
<1>1. Mission \in Types /\ ToSet(StatTypes) \subseteq Types
  BY DEF Types
<1>2. MaxItems \in Nat
  BY MissionAssumption
<1>3. \A x \in 0..1 : Other(x) \in 0..1 /\ Other(x) # x
  BY DEF Other
<1>4. \A x \in 0..1 : [id |-> x, count |-> 0, crc |-> <<>>] \in Plan
  BY <1>2 DEF Plan
<1>5. static \in Statics => \A t \in Types : static.plan[t] \in Plan /\ Cleared(t) \in Plan
  <2> SUFFICES ASSUME static \in Statics, NEW t \in Types
               PROVE  static.plan[t] \in Plan /\ Cleared(t) \in Plan
    OBVIOUS
  <2>1. static.plan[t] \in Plan
    BY DEF Statics, Plans
  <2>2. static.plan[t].id \in 0..1
    BY <2>1 DEF Plan
  <2> QED
    BY <2>1, <2>2, <1>3, <1>4 DEF Cleared
<1>6. NoPlan \in Plan
  BY <1>4 DEF NoPlan
<1> QED
  BY <1>1, <1>2, <1>3, <1>5, <1>6

\* What switch_to_idle_state leaves of the members
LEMMA IdleType ==
    ASSUME NEW m \in [Instances -> Manager], NEW i \in Instances
    PROVE  /\ SwitchToIdle(m, i) \in [Instances -> Manager]
           /\ SwitchToIdle(m, i)[i].state = "IDLE"
           /\ \A j \in Instances \ {i} : SwitchToIdle(m, i)[j] = m[j]
<1>1. m[i].my \in [Types -> 0..1]
  BY DEF Manager
<1>2. Idle(m[i].my) \in Manager
  BY <1>1, PlanTypes DEF Manager, Idle
<1> QED
  BY <1>2 DEF SwitchToIdle, Idle

LEMMA ReceiverType ==
    ASSUME TypeOK, NEW my \in [Types -> 0..1], NEW t \in Types, NEW n \in 0..MaxItems
    PROVE  Receiver(my, t, n) \in Manager
<1>1. UploadArea(t) \in 0..1
  <2>1. static.plan[t].id \in 0..1
    BY DEF TypeOK, Plans, Plan
  <2> QED
    BY <2>1, PlanTypes DEF UploadArea
<1> QED
  BY <1>1, PlanTypes DEF Receiver, Manager

LEMMA SendListType ==
    ASSUME NEW i \in Instances, NEW m \in [Instances -> Manager], NEW plan \in Plan,
           SendList(i, m, plan)
    PROVE  /\ mgr' \in [Instances -> Manager]
           /\ mgr'[i].state = m[i].state
           /\ \A j \in Instances \ {i} : mgr'[j] = m[j]
<1> DEFINE m1 == [m EXCEPT ![i].seq = 0]
           m2 == [m1 EXCEPT ![i].count = plan.count]
<1>0. plan.count \in 0..MaxItems /\ 0 \in 0..MaxItems
  BY PlanTypes DEF Plan
<1>1. m1 \in [Instances -> Manager]
  BY <1>0 DEF Manager
<1> HIDE DEF m1
<1>2. m2 \in [Instances -> Manager]
  BY ZenonT(40), <1>1, <1>0 DEF Manager
<1> HIDE DEF m2
<1>3. [m2 EXCEPT ![i].announced = plan] \in [Instances -> Manager]
  BY ZenonT(40), <1>2 DEF Manager
<1>4. [m2 EXCEPT ![i].announced = plan] = mgr'
  BY Zenon DEF m1, m2, SendList
<1>5. mgr'[i].state = m[i].state /\ \A j \in Instances \ {i} : mgr'[j] = m[j]
  BY DEF SendList, Manager
<1> QED
  BY <1>3, <1>4, <1>5

Todo == Seq(ToSet(StatTypes))

LEMMA CallTypes ==
    /\ NoCall \in Calls
    /\ \A t \in Types, n \in 0..MaxItems + 1 : [op |-> "claim", type |-> t, count |-> n] \in Calls
    /\ \A x \in Items : [op |-> "item", item |-> x] \in Calls
    /\ [op |-> "load"] \in Calls
    /\ \A n \in 0..MaxItems, a \in 0..1 : [op |-> "read", seq |-> n, id |-> a] \in Calls
    /\ \A todo \in Todo : [op |-> "clear", todo |-> todo] \in Calls
    /\ \A of \in Plans, todo \in Todo : [op |-> "check", of |-> of, todo |-> todo] \in Calls
    /\ \A pub \in Plans, what \in {"count", "upload", "clear", "current"}, todo \in Todo :
         [op |-> "state", pub |-> pub, then |-> [what |-> what, todo |-> todo]] \in Calls
    /\ \A t \in ToSet(StatTypes), plan \in Plan, what \in {"count", "upload", "clear"}, todo \in Todo :
         [op |-> "stats", type |-> t, plan |-> plan, then |-> [what |-> what, todo |-> todo]] \in Calls
BY DEF Calls, Todo

\* What a blocked call has in its fields
LEMMA CallFields ==
    ASSUME NEW c \in Calls
    PROVE  /\ c.op \in {None, "claim", "item", "load", "read", "clear", "check", "state", "stats"}
           /\ c.op = None => c = NoCall
           /\ c.op = "claim" => c.type \in Types /\ c.count \in 0..MaxItems + 1
           /\ c.op = "item" => c.item \in Items
           /\ c.op = "read" => c.seq \in 0..MaxItems /\ c.id \in 0..1
           /\ c.op = "clear" => c.todo \in Todo
           /\ c.op = "check" => c.of \in Plans /\ c.todo \in Todo
           /\ c.op = "state" => /\ c.pub \in Plans /\ c.then.todo \in Todo
                                /\ c.then.what \in {"count", "upload", "clear", "current"}
           /\ c.op = "stats" => /\ c.type \in ToSet(StatTypes) /\ c.plan \in Plan
                                /\ c.then.todo \in Todo /\ c.then.what \in {"count", "upload", "clear"}
BY DEF Calls, NoCall, None, Todo

LEMMA OneCall ==
    ASSUME TypeOK, NEW i \in Instances, NEW c \in Calls, Call(i, c)
    PROVE  /\ call' \in [Instances -> Calls]
           /\ call'[i] = c
           /\ \A j \in Instances \ {i} : call'[j] = call[j]
BY DEF TypeOK, Call

Spent == [commands : Nat, faults : Nat, restarts : Nat]

\* What the bounds count only grows.
LEMMA Counts ==
    ASSUME TypeOK
    PROVE  /\ Command => spent' \in Spent /\ spent'.faults = spent.faults /\ spent'.restarts = spent.restarts
           /\ \A ok \in BOOLEAN : Access(ok) =>
                /\ spent' \in Spent /\ spent'.restarts = spent.restarts
                /\ IF ok THEN spent'.faults = spent.faults ELSE spent'.faults = spent.faults + 1
BY DEF TypeOK, Spent, Command, Access, Spend

LEMMA Histories == ASSUME TypeOK, History
                   PROVE  /\ raced' \in BOOLEAN /\ changed' \subseteq Instances
                          /\ ~raced' => ~raced /\ ~Race
BY DEF TypeOK, History
-----------------------------------------------------------------------------
(* What the parts of the actions do                                         *)

SameTransfer(m, n) ==
    /\ m.state = n.state /\ m.type = n.type /\ m.seq = n.seq
    /\ m.count = n.count /\ m.id = n.id /\ m.crc = n.crc

Others(i) == \A j \in Instances \ {i} : mgr'[j] = mgr[j] /\ call'[j] = call[j]

\* The members while a change of the plan is on its way
Switched(t, plan) ==
    IF t = Mission THEN [static.plan EXCEPT ![Mission] = plan]
    ELSE [static.plan EXCEPT ![t].id = plan.id]

LEMMA MyType ==
    ASSUME NEW m \in [Instances -> Manager], NEW i \in Instances, NEW t \in Types, NEW a \in 0..1,
           NEW n, n = [m EXCEPT ![i].my[t] = a]
    PROVE  /\ n \in [Instances -> Manager]
           /\ SameTransfer(n[i], m[i])
           /\ \A j \in Instances \ {i} : n[j] = m[j]
<1>1. [m EXCEPT ![i].my[t] = a] \in [Instances -> Manager]
  BY DEF Manager
<1> QED
  BY <1>1 DEF Manager, SameTransfer

LEMMA BeginActiveEffect ==
    ASSUME TypeOK, NEW i \in Instances, NEW m \in [Instances -> Manager], NEW plan \in Plan,
           NEW busy \in BOOLEAN, NEW what \in {"count", "upload", "clear", "current"}, NEW todo \in Todo,
           BeginActive(i, m, plan, busy, Then(what, todo))
    PROVE  /\ static' \in Statics /\ static'.busy = busy
           /\ static'.plan = Switched(Mission, plan)
           /\ mgr' \in [Instances -> Manager] /\ SameTransfer(mgr'[i], m[i])
           /\ \A j \in Instances \ {i} : mgr'[j] = m[j] /\ call'[j] = call[j]
           /\ call' \in [Instances -> Calls] /\ call'[i].op = "state"
           /\ call'[i].then.what = what
           /\ InFlight(i)' = plan
<1> DEFINE plans == [static.plan EXCEPT ![Mission] = plan]
<1>1. plans \in Plans /\ plans[Mission] = plan
  BY PlanTypes DEF TypeOK, Plans
<1>2. static' = [busy |-> busy, plan |-> plans]
  BY DEF BeginActive
<1>3. plan.id \in 0..1
  BY DEF Plan
<1>4. mgr' = [m EXCEPT ![i].my[Mission] = plan.id]
  BY DEF BeginActive
<1> DEFINE c == [op |-> "state", pub |-> plans, then |-> [what |-> what, todo |-> todo]]
<1>5. c \in Calls
  BY <1>1, CallTypes
<1>6. Call(i, c)
  BY DEF BeginActive, Then
<1> HIDE DEF plans
<1>7. /\ call' \in [Instances -> Calls] /\ call'[i] = c
      /\ \A j \in Instances \ {i} : call'[j] = call[j]
  BY <1>5, <1>6, OneCall
<1>8. InFlight(i)' = plan
  BY <1>7, <1>1 DEF InFlight
<1>9. static' \in Statics /\ static'.busy = busy /\ static'.plan = plans
  BY <1>1, <1>2 DEF Statics
<1>10. /\ mgr' \in [Instances -> Manager] /\ SameTransfer(mgr'[i], m[i])
       /\ \A j \in Instances \ {i} : mgr'[j] = m[j]
  BY <1>3, <1>4, MyType, PlanTypes
<1> QED
  BY <1>7, <1>8, <1>9, <1>10 DEF plans, Switched

LEMMA BeginStatsEffect ==
    ASSUME TypeOK, NEW i \in Instances, NEW m \in [Instances -> Manager], NEW plan \in Plan,
           NEW t \in ToSet(StatTypes),
           NEW busy \in BOOLEAN, NEW what \in {"count", "upload", "clear"}, NEW todo \in Todo,
           BeginStats(i, m, t, plan, busy, Then(what, todo))
    PROVE  /\ static' \in Statics /\ static'.busy = busy
           /\ static'.plan = Switched(t, plan)
           /\ mgr' \in [Instances -> Manager] /\ SameTransfer(mgr'[i], m[i])
           /\ \A j \in Instances \ {i} : mgr'[j] = m[j] /\ call'[j] = call[j]
           /\ call' \in [Instances -> Calls] /\ call'[i].op = "stats" /\ call'[i].type = t
           /\ call'[i].then.what = what
           /\ InFlight(i)' = plan
<1> DEFINE plans == [static.plan EXCEPT ![t].id = plan.id]
<1>0. t \in Types /\ t # Mission
  BY PlanTypes, MissionAssumption
<1>3. plan.id \in 0..1
  BY DEF Plan
<1>1. plans \in Plans
  BY <1>0, <1>3 DEF TypeOK, Plans, Plan
<1>2. static' = [busy |-> busy, plan |-> plans]
  BY DEF BeginStats
<1>4. mgr' = [m EXCEPT ![i].my[t] = plan.id]
  BY DEF BeginStats
<1> DEFINE c == [op |-> "stats", type |-> t, plan |-> plan, then |-> [what |-> what, todo |-> todo]]
<1>5. c \in Calls
  BY CallTypes
<1>6. Call(i, c)
  BY DEF BeginStats, Then
<1> HIDE DEF plans
<1>7. /\ call' \in [Instances -> Calls] /\ call'[i] = c
      /\ \A j \in Instances \ {i} : call'[j] = call[j]
  BY <1>5, <1>6, OneCall
<1>8. InFlight(i)' = plan
  BY <1>7 DEF InFlight
<1>9. static' \in Statics /\ static'.busy = busy /\ static'.plan = plans
  BY <1>1, <1>2 DEF Statics
<1>10. /\ mgr' \in [Instances -> Manager] /\ SameTransfer(mgr'[i], m[i])
       /\ \A j \in Instances \ {i} : mgr'[j] = m[j]
  BY <1>0, <1>3, <1>4, MyType
<1> QED
  BY <1>0, <1>7, <1>8, <1>9, <1>10 DEF plans, Switched

LEMMA BeginEffect ==
    ASSUME TypeOK, NEW i \in Instances, NEW m \in [Instances -> Manager], NEW plan \in Plan,
           NEW t \in Types,
           NEW busy \in BOOLEAN, NEW what \in {"count", "upload", "clear"}, NEW todo \in Todo,
           Begin(i, m, t, plan, busy, Then(what, todo))
    PROVE  /\ static' \in Statics /\ static'.busy = busy
           /\ static'.plan = Switched(t, plan)
           /\ mgr' \in [Instances -> Manager] /\ SameTransfer(mgr'[i], m[i])
           /\ \A j \in Instances \ {i} : mgr'[j] = m[j] /\ call'[j] = call[j]
           /\ call' \in [Instances -> Calls] /\ Changing(i)' /\ call'[i].then.what = what
           /\ \A u \in Types : Switching(i, u)' <=> u = t
           /\ InFlight(i)' = plan
<1>1. CASE t = Mission
  BY <1>1, BeginActiveEffect, MissionAssumption DEF Begin, Changing, Switching
<1>2. CASE t # Mission
  <2>1. t \in ToSet(StatTypes)
    BY <1>2 DEF Types
  <2> QED
    BY <1>2, <2>1, BeginStatsEffect DEF Begin, Changing, Switching
<1> QED
  BY <1>1, <1>2

LEMMA FinishEffect ==
    ASSUME TypeOK, NEW i \in Instances, Changing(i), NEW s \in Statics,
           NEW m \in [Instances -> Manager], NEW failed \in BOOLEAN, Finish(i, s, m, failed)
    PROVE  /\ static' \in Statics /\ static'.plan = s.plan
           /\ static'.busy => s.busy /\ call[i].then.what \notin {"count", "upload"}
           /\ mgr' \in [Instances -> Manager]
           /\ call[i].then.what = "upload" => mgr'[i].state = "IDLE"
           /\ call[i].then.what # "upload" => mgr'[i] = m[i]
           /\ \A j \in Instances \ {i} : mgr'[j] = m[j] /\ call'[j] = call[j]
           /\ call' \in [Instances -> Calls] /\ call'[i].op \in {None, "clear"}
           /\ accepted' \in {{}, {i}}
           /\ accepted' = {i} => call[i].then.what = "upload" /\ ~failed
<1>0. call[i].then.todo \in Todo
  BY CallFields DEF TypeOK, Changing
<1>1. Released(s) \in Statics /\ Released(s).plan = s.plan /\ Released(s).busy = FALSE
  BY DEF Released, Statics
<1>2. NoCall \in Calls /\ NoCall.op = None
  BY CallTypes DEF NoCall
<1>3. CASE /\ call[i].then.what = "count"
           /\ static' = Released(s) /\ mgr' = m /\ Return(i) /\ NoReply
  BY <1>1, <1>2, <1>3, OneCall DEF Return, NoReply, None
<1>4. CASE /\ call[i].then.what = "upload"
           /\ static' = Released(s) /\ mgr' = SwitchToIdle(m, i) /\ Return(i)
           /\ accepted' = IF failed THEN {} ELSE {i}
  BY <1>1, <1>2, <1>4, OneCall, IdleType DEF Return, None
<1>5. CASE /\ call[i].then.what = "clear"
           /\ static' = s /\ mgr' = m
           /\ Call(i, [op |-> "clear", todo |-> call[i].then.todo]) /\ NoReply
  <2>1. [op |-> "clear", todo |-> call[i].then.todo] \in Calls
    BY <1>0, CallTypes
  <2> QED
    BY <2>1, <1>5, OneCall DEF NoReply
<1>6. CASE /\ call[i].then.what = "current"
           /\ static' = s /\ mgr' = m /\ Return(i) /\ NoReply
  BY <1>2, <1>6, OneCall DEF Return, NoReply, None
<1> QED
  BY <1>3, <1>4, <1>5, <1>6 DEF Finish

LEMMA LoadEffect ==
    ASSUME TypeOK, NEW i \in Instances, NEW t \in Types, NEW ok \in BOOLEAN
    PROVE  /\ Load(t, ok) \in Statics /\ Load(t, ok).busy = static.busy
           /\ Load(t, ok).plan = IF ok THEN [static.plan EXCEPT ![t] = saved[t]] ELSE static.plan
           /\ Loaded(i, t, ok) \in [Instances -> Manager]
           /\ SameTransfer(Loaded(i, t, ok)[i], mgr[i])
           /\ \A j \in Instances \ {i} : Loaded(i, t, ok)[j] = mgr[j]
<1>1. saved[t] \in Plan /\ saved[t].id \in 0..1
  BY DEF TypeOK, Plans, Plan
<1>2. /\ Load(t, ok) \in Statics /\ Load(t, ok).busy = static.busy
      /\ Load(t, ok).plan = IF ok THEN [static.plan EXCEPT ![t] = saved[t]] ELSE static.plan
  BY <1>1 DEF Load, Statics, TypeOK, Plans
<1>3. mgr \in [Instances -> Manager]
  BY DEF TypeOK, Manager
<1>4. CASE ok
  <2>1. Loaded(i, t, ok) = [mgr EXCEPT ![i].my[t] = saved[t].id]
    BY <1>4 DEF Loaded
  <2> DEFINE n == Loaded(i, t, ok)
  <2>2. n = [mgr EXCEPT ![i].my[t] = saved[t].id]
    BY <2>1
  <2> HIDE DEF n
  <2>3. /\ n \in [Instances -> Manager] /\ SameTransfer(n[i], mgr[i])
        /\ \A j \in Instances \ {i} : n[j] = mgr[j]
    BY <2>2, <1>1, <1>3, MyType
  <2> QED
    BY <2>3, <1>2 DEF n
<1>5. CASE ~ok
  BY <1>2, <1>3, <1>5 DEF Loaded, SameTransfer
<1> QED
  BY <1>4, <1>5

LEMMA LeastOf ==
    ASSUME NEW n \in Nat, NEW S \in SUBSET (1..n), S # {}
    PROVE  Min(S) \in 1..n
<1> DEFINE R == OpToRel(<, Nat)
<1>1. IsWellFoundedOn(R, Nat)
  BY NatLessThanWellFounded, Zenon
<1>2. \A x, y \in Nat : x < y => <<x, y>> \in R
  BY Zenon DEF OpToRel
<1> HIDE DEF R
<1>3. S \subseteq Nat
  OBVIOUS
<1>4. PICK k \in S : \A m \in S : ~ (<<m, k>> \in R)
  BY <1>1, <1>3, WFMin, Zenon
<1>5. \A m \in S : ~ (m < k)
  BY <1>2, <1>3, <1>4, Zenon
<1>6. \A m \in S : k <= m
  BY <1>3, <1>5
<1> QED
  BY <1>6 DEF Min

LEMMA CheckEffect ==
    ASSUME TypeOK, NEW i \in Instances, NEW s \in Statics, NEW m \in [Instances -> Manager],
           NEW todo \in Todo, NEW of \in Plans, Check(i, s, m, todo, of)
    PROVE  /\ static' \in Statics /\ static'.busy = s.busy
           /\ \A t \in Types \ {Mission} : static'.plan[t] = s.plan[t]
           /\ mgr' \in [Instances -> Manager] /\ SameTransfer(mgr'[i], m[i])
           /\ \A j \in Instances \ {i} : mgr'[j] = m[j] /\ call'[j] = call[j]
           /\ call' \in [Instances -> Calls] /\ call'[i].op \in {None, "check"}
           /\ call'[i].op = "check" => call'[i].todo # <<>>
<1> DEFINE differ == {k \in DOMAIN todo : Differs(i, s, m, todo[k], of)}
<1>1. CASE differ # {}
  <2> DEFINE rest == SubSeq(todo, Min(differ), Len(todo))
             c == [op |-> "check", of |-> of, todo |-> rest]
  <2>1. Min(differ) \in 1..Len(todo)
    <3>1. differ \in SUBSET (1..Len(todo)) /\ Len(todo) \in Nat
      BY DEF Todo
    <3> HIDE DEF differ
    <3> QED
      BY <3>1, <1>1, LeastOf
  <2>2. rest \in Todo /\ rest # <<>>
    <3> HIDE DEF differ
    <3>1. rest \in Seq(ToSet(StatTypes)) /\ Len(rest) = Len(todo) - Min(differ) + 1
      <4>1. \A k \in Min(differ)..Len(todo) : todo[k] \in ToSet(StatTypes)
        BY <2>1 DEF Todo
      <4>2. Min(differ) \in Int /\ Len(todo) \in Int /\ Min(differ) <= Len(todo)
        BY <2>1 DEF Todo
      <4> QED
        BY <4>1, <4>2, SubSeqProperties
    <3>2. Len(rest) > 0
      <4>1. Len(todo) \in Nat
        BY DEF Todo
      <4> QED
        BY <2>1, <3>1, <4>1
    <3>3. rest # <<>>
      <4> HIDE DEF rest
      <4> QED
        BY <3>2
    <3> QED
      BY <3>1, <3>3 DEF Todo
  <2>3. static' = s /\ mgr' = m /\ Call(i, c)
    BY <1>1 DEF Check
  <2> HIDE DEF rest, differ
  <2>4. c \in Calls
    BY <2>2, CallTypes
  <2> QED
    BY <2>2, <2>3, <2>4, OneCall DEF SameTransfer
<1>2. CASE differ = {}
  <2>1. /\ static' = [s EXCEPT !.plan[Mission] = IF Differs(i, s, m, Mission, of) THEN of[Mission] ELSE @]
        /\ mgr' = [m EXCEPT ![i].my[Mission] = of[Mission].id]
        /\ Return(i)
    BY <1>2 DEF Check
  <2>2. of[Mission] \in Plan /\ of[Mission].id \in 0..1
    BY PlanTypes DEF Plans, Plan
  <2>3. static' \in Statics /\ static'.busy = s.busy /\ \A t \in Types \ {Mission} : static'.plan[t] = s.plan[t]
    BY <2>1, <2>2, PlanTypes DEF Statics, Plans
  <2>4. /\ mgr' \in [Instances -> Manager] /\ SameTransfer(mgr'[i], m[i])
        /\ \A j \in Instances \ {i} : mgr'[j] = m[j]
    BY <2>1, <2>2, MyType, PlanTypes
  <2>5. /\ call' \in [Instances -> Calls] /\ call'[i].op = None
        /\ \A j \in Instances \ {i} : call'[j] = call[j]
    BY <2>1, OneCall, CallTypes DEF Return, NoCall
  <2> QED
    BY <2>3, <2>4, <2>5 DEF None
<1> QED
  BY <1>1, <1>2
-----------------------------------------------------------------------------
(* The invariant under the kinds of steps                                   *)

\* On whose behalf the flag is set
Holder(j) == mgr[j].state = "GETLIST" \/ (Changing(j) /\ call[j].then.what = "count")

\* What holds of the other instances stays
Bystander(j) ==
    /\ \A t \in Types : /\ Receiving(j, t)' <=> Receiving(j, t)
                        /\ Switching(j, t)' <=> Switching(j, t)
                        /\ Writing(j, t)' <=> Writing(j, t)
    /\ Changing(j)' <=> Changing(j)
    /\ InFlight(j)' = InFlight(j)
    /\ mgr'[j] = mgr[j] /\ call'[j] = call[j]

LEMMA Bystanders ==
    ASSUME NEW i \in Instances, Others(i), NEW j \in Instances \ {i}
    PROVE  Bystander(j)
<1>1. mgr'[j] = mgr[j] /\ call'[j] = call[j]
  BY DEF Others
<1>2. InFlight(j)' = InFlight(j)
  BY <1>1 DEF InFlight
<1>3. \A t \in Types : /\ Receiving(j, t)' <=> Receiving(j, t)
                       /\ Switching(j, t)' <=> Switching(j, t)
  BY <1>1 DEF Receiving, Switching
<1>4. Changing(j)' <=> Changing(j)
  BY <1>1 DEF Changing
<1>5. \A t \in Types : Writing(j, t)' <=> Writing(j, t)
  BY <1>3, <1>4 DEF Writing
<1> QED
  BY <1>1, <1>2, <1>3, <1>4, <1>5 DEF Bystander

\* A change is one of one type.
LEMMA OneType ==
    ASSUME TypeOK, NEW i \in Instances
    PROVE  /\ Changing(i) => \E t \in Types : Switching(i, t)
           /\ \A t \in Types : Switching(i, t) => Changing(i) /\ InFlight(i) \in Plan
           /\ \A t, u \in Types : Switching(i, t) /\ Switching(i, u) => t = u
<1>1. call[i] \in Calls
  BY DEF TypeOK
<1>2. /\ call[i].op = "state" => call[i].pub \in Plans
      /\ call[i].op = "stats" => call[i].type \in ToSet(StatTypes) /\ call[i].plan \in Plan
  BY <1>1, CallFields
<1>3. call[i].op = "state" => call[i].pub[Mission] \in Plan
  BY <1>2, PlanTypes DEF Plans
<1> QED
  BY <1>2, <1>3, PlanTypes DEF Switching, Changing, InFlight

LEMMA AloneNext ==
    ASSUME ~raced' => ~Race
    PROVE  Alone'
BY DEF Alone, Race

LEMMA ControlNext ==
    ASSUME Control, Uploads, NEW i \in Instances, Others(i), ControlOf(i)', UploadOf(i)'
    PROVE  Control' /\ Uploads'
<1>1. ASSUME NEW j \in Instances \ {i} PROVE ControlOf(j)' /\ UploadOf(j)'
  <2>1. mgr'[j] = mgr[j] /\ call'[j] = call[j]
    BY DEF Others
  <2>2. ControlOf(j) /\ UploadOf(j)
    BY DEF Control, Uploads
  <2>3. ControlOf(j)'
    BY <2>1, <2>2 DEF ControlOf, Changing, InFlight, Upload, Switching
  <2>4. UploadOf(j)'
    BY <2>1, <2>2 DEF UploadOf, Changing
  <2> QED
    BY <2>3, <2>4
<1> QED
  BY <1>1 DEF Control, Uploads

\* What a step may do to the areas: the plans that no upload is written over stay,
\* and so does what the other uploads have written.
StoreKeeps(i) ==
    /\ ~raced => \A t \in Types, plan \in Plan :
        /\ Holds(store, t, plan)
        /\ \A k \in Instances : Writing(k, t) => Apart(k, plan)
        => Holds(store', t, plan)
    /\ ~raced' => \A j \in Instances \ {i} : WrittenOf(j) => WrittenOf(j)'

LEMMA StoreKept ==
    ASSUME NEW i \in Instances, Others(i), UNCHANGED store
    PROVE  StoreKeeps(i)
BY DEF StoreKeeps, WrittenOf, Others

\* A step that changes no plan, unless it is of a race or a fault, and begins no upload
LEMMA CalmStep ==
    ASSUME IInv, TypeOK', NEW i \in Instances, Others(i), StoreKeeps(i),
           ControlOf(i)', UploadOf(i)', ~raced' => WrittenOf(i)',
           ~Changing(i), ~Changing(i)',
           mgr'[i].state = "GETLIST" =>
               mgr[i].state = "GETLIST" /\ mgr'[i].type = mgr[i].type /\ mgr'[i].id = mgr[i].id,
           ~raced' => ~raced /\ ~Race,
           NoFault' => static'.plan = static.plan,
           ~raced' => static'.plan[Mission] = static.plan[Mission],
           static'.busy => /\ static.busy
                           /\ mgr[i].state = "GETLIST" => mgr'[i].state = "GETLIST",
           NoFault' => NoFault, Flown' => Flown,
           UNCHANGED saved
    PROVE  IInv'
<1> USE DEF IInv
<1>1. Control' /\ Uploads'
  BY ControlNext
<1>2. Alone'
  BY AloneNext
<1>a. \A j \in Instances \ {i} : Bystander(j)
  BY Bystanders
<1>b. \A t \in Types : ~Switching(i, t) /\ ~Switching(i, t)'
  BY OneType DEF Changing, Switching
<1>3. FlagHeld'
  <2> SUFFICES ASSUME static'.busy
               PROVE  \E j \in Instances : Holder(j)'
    BY DEF FlagHeld, Holder, Changing
  <2>1. PICK j \in Instances : Holder(j)
    BY DEF FlagHeld, Holder, Changing
  <2>2. CASE j = i
    BY <2>1, <2>2 DEF Holder
  <2>3. CASE j # i
    BY <2>1, <2>3, <1>a DEF Bystander, Holder
  <2> QED
    BY <2>2, <2>3
<1>4. Written'
  BY DEF Written, StoreKeeps
<1>c. \A t \in Types, j \in Instances : Switching(j, t)' =>
        j # i /\ Switching(j, t) /\ InFlight(j)' = InFlight(j) /\ InFlight(j) \in Plan
  BY <1>a, <1>b, OneType DEF Bystander
<1>d. \A t \in Types, j \in Instances : Writing(j, t)' => Writing(j, t) /\ mgr'[j].id = mgr[j].id
  BY <1>a DEF Bystander, Writing, Receiving
<1>5. SavedWhole'
  <2> SUFFICES ASSUME NoFault', NEW t \in Types
               PROVE  /\ Holds(store', t, saved[t])
                      /\ \A j \in Instances : Switching(j, t)' => Holds(store', t, InFlight(j)')
                      /\ \A j \in Instances : Writing(j, t)' =>
                          /\ Apart(j, saved[t])'
                          /\ \A k \in Instances : Switching(k, t)' => Apart(j, InFlight(k))'
    BY DEF SavedWhole
  <2>1. ~raced /\ NoFault
    BY DEF NoFault
  <2>2. saved[t] \in Plan
    BY DEF TypeOK, Plans
  <2>3. \A k \in Instances : Writing(k, t) =>
            /\ Apart(k, saved[t])
            /\ \A j \in Instances : Switching(j, t) => Apart(k, InFlight(j))
    BY <2>1 DEF SavedWhole
  <2>4. Holds(store', t, saved[t])
    BY <2>1, <2>2, <2>3 DEF SavedWhole, StoreKeeps
  <2>5. ASSUME NEW j \in Instances, Switching(j, t)' PROVE Holds(store', t, InFlight(j)')
    <3>1. Switching(j, t) /\ InFlight(j)' = InFlight(j) /\ InFlight(j) \in Plan
      BY <1>c, <2>5
    <3>2. Holds(store, t, InFlight(j)) /\ \A k \in Instances : Writing(k, t) => Apart(k, InFlight(j))
      BY <2>1, <2>3, <3>1 DEF SavedWhole
    <3>3. Holds(store', t, InFlight(j))
      BY <2>1, <3>1, <3>2 DEF StoreKeeps
    <3> QED
      BY <3>1, <3>3
  <2>6. ASSUME NEW j \in Instances, Writing(j, t)'
        PROVE  /\ Apart(j, saved[t])'
               /\ \A k \in Instances : Switching(k, t)' => Apart(j, InFlight(k))'
    BY <1>c, <1>d, <2>3, <2>6 DEF Apart
  <2> QED
    BY <2>4, <2>5, <2>6
<1>6. Synchronous'
  BY <1>a, <1>b, <1>c DEF Synchronous, Bystander
<1>7. FlownWhole'
  <2> SUFFICES ASSUME Flown'
               PROVE  /\ Holds(store', Mission, static'.plan[Mission])
                      /\ \A j \in Instances : Switching(j, Mission)' => InFlight(j)' = static'.plan[Mission]
                      /\ \A j \in Instances : Writing(j, Mission)' => Apart(j, static.plan[Mission])'
    BY DEF FlownWhole
  <2>1. ~raced /\ Flown /\ static'.plan[Mission] = static.plan[Mission]
    BY DEF Flown
  <2>2. static.plan[Mission] \in Plan /\ Mission \in Types
    BY PlanTypes DEF TypeOK, Plans
  <2>3. \A k \in Instances : Writing(k, Mission) => Apart(k, static.plan[Mission])
    BY <2>1 DEF FlownWhole
  <2>4. Holds(store', Mission, static.plan[Mission])
    BY <2>1, <2>2, <2>3 DEF FlownWhole, StoreKeeps
  <2>5. \A j \in Instances : Switching(j, Mission)' => InFlight(j)' = static'.plan[Mission]
    BY <1>c, <2>1, <2>2 DEF FlownWhole
  <2>6. \A j \in Instances : Writing(j, Mission)' => Apart(j, static.plan[Mission])'
    BY <1>d, <2>1, <2>2, <2>3 DEF Apart
  <2> QED
    BY <2>1, <2>4, <2>5, <2>6
<1> QED
  BY <1>1, <1>2, <1>3, <1>4, <1>5, <1>6, <1>7

\* What the statement of the invariant says of another thread that changes the plan
LEMMA NoOther ==
    ASSUME Alone', ~raced', NEW i \in Instances, Others(i), NEW t \in Types, Switching(i, t)'
    PROVE  \A j \in Instances \ {i} : ~Switching(j, t) /\ ~Switching(j, t)'
BY Bystanders DEF Alone, Bystander

LEMMA ClearedHolds ==
    ASSUME NEW s, NEW t \in Types, NEW plan, plan.count = 0, plan.crc = <<>>
    PROVE  Holds(s, t, plan)
BY DEF Holds

\* An instance begins to clear a plan, to save it again or to save an upload.
LEMMA BeginStep ==
    ASSUME IInv, TypeOK', NEW i \in Instances, Others(i), NEW t \in Types, NEW plan \in Plan,
           StoreKeeps(i), ControlOf(i)', UploadOf(i)', ~raced' => WrittenOf(i)',
           ~Changing(i), Changing(i)',
           \A u \in Types : Switching(i, u)' <=> u = t,
           InFlight(i)' = plan, static'.plan = Switched(t, plan),
           \/ plan.count = 0 /\ plan.crc = <<>> /\ call'[i].then.what # "current"
           \/ t = Mission /\ plan = static.plan[t]
           \/ /\ Receiving(i, t)' /\ call'[i].then.what # "current"
              /\ ~raced' => Holds(store', t, plan),
           static'.busy => Holder(i)' \/ (static.busy /\ ~Holder(i)),
           ~raced' => ~raced /\ ~Race,
           NoFault' => NoFault, Flown' => Flown,
           UNCHANGED saved
    PROVE  IInv'
<1> USE DEF IInv
<1>1. Control' /\ Uploads'
  BY ControlNext
<1>2. Alone'
  BY AloneNext
<1>a. \A j \in Instances \ {i} : Bystander(j)
  BY Bystanders
<1>b. \A u \in Types : ~Switching(i, u)
  BY OneType
<1>c. \A u \in Types : ~Writing(i, u)'
  BY DEF Writing
<1>d. ~raced' => \A j \in Instances \ {i} : ~Switching(j, t) /\ ~Switching(j, t)'
  BY <1>2, NoOther
<1>3. FlagHeld'
  <2> SUFFICES ASSUME static'.busy
               PROVE  \E j \in Instances : Holder(j)'
    BY DEF FlagHeld, Holder, Changing
  <2>1. CASE Holder(i)'
    BY <2>1
  <2>2. CASE static.busy /\ ~Holder(i)
    <3>1. PICK j \in Instances : Holder(j)
      BY <2>2 DEF FlagHeld, Holder, Changing
    <3> QED
      BY <3>1, <2>2, <1>a DEF Bystander, Holder
  <2> QED
    BY <2>1, <2>2
<1>4. Written'
  BY DEF Written, StoreKeeps
<1>f. \A j \in Instances, u \in Types : Writing(j, u)' =>
        j # i /\ Writing(j, u) /\ mgr'[j] = mgr[j]
  BY <1>a, <1>c DEF Bystander
<1>g. \A j \in Instances, u \in Types : Switching(j, u)' =>
        \/ j = i /\ u = t /\ InFlight(j)' = plan
        \/ j # i /\ Switching(j, u) /\ InFlight(j)' = InFlight(j) /\ InFlight(j) \in Plan
  BY <1>a, OneType DEF Bystander
<1>i. ASSUME ~raced', Receiving(i, t)', NEW k \in Instances PROVE ~Writing(k, t)'
  BY <1>2, <1>c, <1>i DEF Alone, Writing
<1>e. NoFault' => /\ NoFault /\ ~raced /\ ~raced' /\ static.plan[t] = saved[t]
                  /\ Holds(store', t, plan)
                  /\ \A k \in Instances : Writing(k, t)' => Apart(k, plan)
  <2> SUFFICES ASSUME NoFault'
               PROVE  /\ ~raced' /\ static.plan[t] = saved[t]
                      /\ Holds(store', t, plan)
                      /\ \A k \in Instances : Writing(k, t)' => Apart(k, plan)
    BY DEF NoFault
  <2>1. ~raced' /\ ~raced /\ NoFault
    BY DEF NoFault
  <2>2. static.plan[t] = saved[t] /\ saved[t] \in Plan
    BY <2>1, <1>b, <1>d DEF Synchronous, TypeOK, Plans
  <2>3. Holds(store', t, saved[t])
    BY <2>1, <2>2 DEF SavedWhole, StoreKeeps
  <2>4. Holds(store', t, plan)
    BY <2>1, <2>2, <2>3, ClearedHolds
  <2>5. ASSUME NEW k \in Instances, Writing(k, t)' PROVE Apart(k, plan)
    BY <1>f, <1>i, <2>1, <2>2, <2>5 DEF SavedWhole, Apart
  <2> QED
    BY <2>1, <2>2, <2>4, <2>5
<1>5. SavedWhole'
  <2> SUFFICES ASSUME NoFault', NEW u \in Types
               PROVE  /\ Holds(store', u, saved[u])
                      /\ \A j \in Instances : Switching(j, u)' => Holds(store', u, InFlight(j)')
                      /\ \A j \in Instances : Writing(j, u)' =>
                          /\ Apart(j, saved[u])'
                          /\ \A k \in Instances : Switching(k, u)' => Apart(j, InFlight(k))'
    BY DEF SavedWhole
  <2>1. /\ Holds(store, u, saved[u])
        /\ \A j \in Instances : Switching(j, u) => Holds(store, u, InFlight(j))
        /\ \A j \in Instances : Writing(j, u) =>
            /\ Apart(j, saved[u])
            /\ \A k \in Instances : Switching(k, u) => Apart(j, InFlight(k))
    BY <1>e DEF SavedWhole
  <2>a. saved[u] \in Plan
    BY DEF TypeOK, Plans
  <2>b. Holds(store', u, saved[u])
    BY <2>1, <2>a, <1>e DEF StoreKeeps
  <2>2. ASSUME NEW j \in Instances, Switching(j, u)' PROVE Holds(store', u, InFlight(j)')
    <3>1. CASE j = i
      BY <2>2, <3>1, <1>e, <1>g
    <3>2. CASE j # i
      <4>1. Switching(j, u) /\ InFlight(j)' = InFlight(j) /\ InFlight(j) \in Plan
        BY <2>2, <3>2, <1>g
      <4>2. Holds(store, u, InFlight(j)) /\ \A k \in Instances : Writing(k, u) => Apart(k, InFlight(j))
        BY <2>1, <4>1
      <4>3. Holds(store', u, InFlight(j))
        BY <4>1, <4>2, <1>e DEF StoreKeeps
      <4> QED
        BY <4>1, <4>3
    <3> QED
      BY <3>1, <3>2
  <2>3. ASSUME NEW j \in Instances, Writing(j, u)'
        PROVE  /\ Apart(j, saved[u])'
               /\ \A k \in Instances : Switching(k, u)' => Apart(j, InFlight(k))'
    <3>1. Writing(j, u) /\ mgr'[j] = mgr[j]
      BY <1>f, <2>3
    <3>2. Apart(j, saved[u])'
      BY <2>1, <3>1 DEF Apart
    <3>3. ASSUME NEW k \in Instances, Switching(k, u)' PROVE Apart(j, InFlight(k))'
      <4>1. CASE k = i
        <5>1. u = t /\ InFlight(k)' = plan
          BY <1>g, <3>3, <4>1
        <5>2. Apart(j, plan)
          BY <1>e, <2>3, <5>1
        <5> QED
          BY <3>1, <5>1, <5>2 DEF Apart
      <4>2. CASE k # i
        <5>1. Switching(k, u) /\ InFlight(k)' = InFlight(k)
          BY <1>g, <3>3, <4>2
        <5>2. Apart(j, InFlight(k))
          BY <2>1, <3>1, <5>1
        <5> QED
          BY <3>1, <5>1, <5>2 DEF Apart
      <4> QED
        BY <4>1, <4>2
    <3> QED
      BY <3>2, <3>3
  <2> QED
    BY <2>b, <2>2, <2>3
<1>h. /\ \A u \in Types \ {t} : static'.plan[u] = static.plan[u]
      /\ t = Mission => static'.plan[t] = plan
      /\ t # Mission => static'.plan[t] = [static.plan[t] EXCEPT !.id = plan.id]
  <2>1. static.plan \in [Types -> Plan]
    BY DEF TypeOK, Plans
  <2>2. CASE t = Mission
    BY <2>1, <2>2 DEF Switched
  <2>3. CASE t # Mission
    <3>1. static'.plan = [static.plan EXCEPT ![t] = [static.plan[t] EXCEPT !.id = plan.id]]
      BY <2>3, Zenon DEF Switched
    <3> QED
      BY <2>1, <2>3, <3>1, Zenon
  <2> QED
    BY <2>2, <2>3
<1>6. Synchronous'
  <2> SUFFICES ASSUME NoFault', NEW u \in Types
               PROVE  /\ (\A j \in Instances : ~Switching(j, u)') => static'.plan[u] = saved[u]
                      /\ \A j \in Instances : Switching(j, u)' =>
                          /\ u = Mission => static'.plan[u] = InFlight(j)'
                          /\ u # Mission => static'.plan[u] = [saved[u] EXCEPT !.id = InFlight(j)'.id]
                          /\ call'[j].then.what = "current" => InFlight(j)' = saved[u]
    BY DEF Synchronous
  <2>1. CASE u = t
    <3>1. Switching(i, u)' /\ \A j \in Instances : Switching(j, u)' => j = i
      BY <2>1, <1>d, <1>e
    <3> QED
      BY <3>1, <2>1, <1>e, <1>h
  <2>2. CASE u # t
    <3>1. \A j \in Instances : Switching(j, u)' <=> Switching(j, u)
      BY <2>2, <1>a, <1>b DEF Bystander
    <3>2. \A j \in Instances : Switching(j, u) =>
             InFlight(j)' = InFlight(j) /\ call'[j] = call[j]
      BY <1>a, <1>b DEF Bystander
    <3> QED
      BY <3>1, <3>2, <2>2, <1>e, <1>h DEF Synchronous
  <2> QED
    BY <2>1, <2>2
<1>7. FlownWhole'
  <2> SUFFICES ASSUME Flown'
               PROVE  /\ Holds(store', Mission, static'.plan[Mission])
                      /\ \A j \in Instances : Switching(j, Mission)' => InFlight(j)' = static'.plan[Mission]
                      /\ \A j \in Instances : Writing(j, Mission)' => Apart(j, static.plan[Mission])'
    BY DEF FlownWhole
  <2>0. ~raced' /\ ~raced /\ Flown /\ Mission \in Types /\ static.plan[Mission] \in Plan
    BY PlanTypes DEF Flown, TypeOK, Plans
  <2>1. /\ Holds(store, Mission, static.plan[Mission])
        /\ \A j \in Instances : Switching(j, Mission) => InFlight(j) = static.plan[Mission]
        /\ \A j \in Instances : Writing(j, Mission) => Apart(j, static.plan[Mission])
    BY <2>0 DEF FlownWhole
  <2>a. Holds(store', Mission, static.plan[Mission])
    BY <2>0, <2>1 DEF StoreKeeps
  <2>2. CASE t = Mission
    <3>1. static'.plan[Mission] = plan
      BY <2>2, <1>h
    <3>2. Holds(store', Mission, plan)
      BY <2>0, <2>a, <2>2, ClearedHolds
    <3>3. \A j \in Instances : Switching(j, Mission)' => InFlight(j)' = plan
      BY <2>0, <2>2, <1>d
    <3>4. ASSUME NEW j \in Instances, Writing(j, Mission)' PROVE Apart(j, static.plan[Mission])'
      BY <2>0, <2>1, <2>2, <3>1, <3>4, <1>f, <1>i DEF Apart
    <3> QED
      BY <3>1, <3>2, <3>3, <3>4
  <2>3. CASE t # Mission
    <3>1. static'.plan[Mission] = static.plan[Mission]
      BY <2>0, <2>3, <1>h
    <3>2. \A j \in Instances : Switching(j, Mission)' => InFlight(j)' = static.plan[Mission]
      BY <2>0, <2>1, <2>3, <1>g
    <3>3. \A j \in Instances : Writing(j, Mission)' => Apart(j, static.plan[Mission])'
      BY <2>0, <2>1, <3>1, <1>f DEF Apart
    <3> QED
      BY <2>a, <3>1, <3>2, <3>3
  <2> QED
    BY <2>2, <2>3
<1> QED
  BY <1>1, <1>2, <1>3, <1>4, <1>5, <1>6, <1>7

\* A change of the plan is over.
LEMMA EndStep ==
    ASSUME IInv, TypeOK', NEW i \in Instances, Others(i), NEW t \in Types, Switching(i, t),
           ControlOf(i)', UploadOf(i)', ~Changing(i)', mgr'[i].state = "IDLE",
           static'.busy => static.busy /\ ~Holder(i),
           \A u \in Types \ {t} : saved'[u] = saved[u] /\ static'.plan[u] = static.plan[u],
           NoFault' => saved'[t] = InFlight(i) /\ static'.plan[t] = InFlight(i),
           static'.plan[Mission] = static.plan[Mission],
           ~raced' => ~raced /\ ~Race,
           NoFault' => NoFault, Flown' => Flown,
           UNCHANGED store
    PROVE  IInv'
<1> USE DEF IInv
<1>1. Control' /\ Uploads'
  BY ControlNext
<1>2. Alone'
  BY AloneNext
<1>a. \A j \in Instances \ {i} : Bystander(j)
  BY Bystanders
<1>b. \A u \in Types : (Switching(i, u) <=> u = t) /\ ~Switching(i, u)' /\ ~Writing(i, u)'
  BY OneType DEF Changing, Switching, Writing, Receiving
<1>c. ~raced => \A j \in Instances : Switching(j, t) => j = i
  BY DEF Alone
<1>d. \A j \in Instances, u \in Types : Switching(j, u)' =>
        /\ j # i /\ Switching(j, u) /\ InFlight(j)' = InFlight(j) /\ call'[j] = call[j]
        /\ ~raced => u # t
  BY <1>a, <1>b, <1>c DEF Bystander
<1>e. \A j \in Instances, u \in Types : Writing(j, u)' =>
        j # i /\ Writing(j, u) /\ mgr'[j] = mgr[j]
  BY <1>a, <1>b DEF Bystander
<1>3. FlagHeld'
  <2> SUFFICES ASSUME static'.busy
               PROVE  \E j \in Instances : Holder(j)'
    BY DEF FlagHeld, Holder, Changing
  <2>1. PICK j \in Instances : Holder(j)
    BY DEF FlagHeld, Holder, Changing
  <2> QED
    BY <2>1, <1>a DEF Bystander, Holder
<1>4. Written'
  <2>1. ASSUME ~raced', NEW j \in Instances PROVE WrittenOf(j)'
    <3>1. CASE j = i
      BY <3>1 DEF WrittenOf
    <3>2. CASE j # i
      BY <2>1, <3>2 DEF WrittenOf, Written, Others
    <3> QED
      BY <3>1, <3>2
  <2> QED
    BY <2>1 DEF Written
<1>5. SavedWhole'
  <2> SUFFICES ASSUME NoFault', NEW u \in Types
               PROVE  /\ Holds(store, u, saved'[u])
                      /\ \A j \in Instances : Switching(j, u)' => Holds(store, u, InFlight(j)')
                      /\ \A j \in Instances : Writing(j, u)' =>
                          /\ Apart(j, saved[u])'
                          /\ \A k \in Instances : Switching(k, u)' => Apart(j, InFlight(k))'
    BY DEF SavedWhole
  <2>0. NoFault /\ ~raced
    BY DEF NoFault
  <2>1. /\ Holds(store, u, saved[u])
        /\ \A j \in Instances : Switching(j, u) => Holds(store, u, InFlight(j))
        /\ \A j \in Instances : Writing(j, u) =>
            /\ Apart(j, saved[u])
            /\ \A k \in Instances : Switching(k, u) => Apart(j, InFlight(k))
    BY <2>0 DEF SavedWhole
  <2>2. /\ Holds(store, u, saved'[u])
        /\ \A j \in Instances : Writing(j, u) => Apart(j, saved'[u])
    <3>1. CASE u = t
      BY <2>1, <3>1
    <3>2. CASE u # t
      BY <2>1, <3>2
    <3> QED
      BY <3>1, <3>2
  <2>3. \A j \in Instances : Switching(j, u)' => Holds(store, u, InFlight(j)')
    BY <2>1, <1>d
  <2>4. ASSUME NEW j \in Instances, Writing(j, u)'
        PROVE  /\ Apart(j, saved[u])'
               /\ \A k \in Instances : Switching(k, u)' => Apart(j, InFlight(k))'
    <3>1. Writing(j, u) /\ mgr'[j] = mgr[j]
      BY <1>e, <2>4
    <3>2. Apart(j, saved[u])'
      BY <2>2, <3>1 DEF Apart
    <3>3. \A k \in Instances : Switching(k, u)' => Apart(j, InFlight(k))'
      BY <2>1, <3>1, <1>d DEF Apart
    <3> QED
      BY <3>2, <3>3
  <2> QED
    BY <2>2, <2>3, <2>4
<1>6. Synchronous'
  <2> SUFFICES ASSUME NoFault', NEW u \in Types
               PROVE  /\ (\A j \in Instances : ~Switching(j, u)') => static'.plan[u] = saved'[u]
                      /\ \A j \in Instances : Switching(j, u)' =>
                          /\ u = Mission => static'.plan[u] = InFlight(j)'
                          /\ u # Mission => static'.plan[u] = [saved'[u] EXCEPT !.id = InFlight(j)'.id]
                          /\ call'[j].then.what = "current" => InFlight(j)' = saved'[u]
    BY DEF Synchronous
  <2>0. NoFault /\ ~raced
    BY DEF NoFault
  <2>1. CASE u = t
    BY <2>0, <2>1, <1>d
  <2>2. CASE u # t
    <3>1. \A j \in Instances : Switching(j, u)' <=> Switching(j, u)
      BY <2>2, <1>a, <1>b DEF Bystander
    <3>2. saved'[u] = saved[u] /\ static'.plan[u] = static.plan[u]
      BY <2>2
    <3> QED
      BY <3>1, <3>2, <2>0, <1>d DEF Synchronous
  <2> QED
    BY <2>1, <2>2
<1>7. FlownWhole'
  <2> SUFFICES ASSUME Flown'
               PROVE  /\ Holds(store, Mission, static'.plan[Mission])
                      /\ \A j \in Instances : Switching(j, Mission)' => InFlight(j)' = static'.plan[Mission]
                      /\ \A j \in Instances : Writing(j, Mission)' => Apart(j, static.plan[Mission])'
    BY DEF FlownWhole
  <2>1. Flown /\ Mission \in Types
    BY PlanTypes
  <2>2. \A j \in Instances : Writing(j, Mission)' => Apart(j, static.plan[Mission])'
    BY <2>1, <1>e DEF FlownWhole, Apart
  <2> QED
    BY <2>1, <2>2, <1>d DEF FlownWhole
<1> QED
  BY <1>1, <1>2, <1>3, <1>4, <1>5, <1>6, <1>7

\* An upload begins.
LEMMA UploadStep ==
    ASSUME IInv, TypeOK', NEW i \in Instances, Others(i), NEW t \in Types,
           Claiming(i, t), call'[i].op = None, ControlOf(i)', UploadOf(i)',
           Receiving(i, t)', mgr'[i].seq = 0, mgr'[i].id = Other(static.plan[t].id),
           static'.plan = static.plan,
           ~raced' => ~raced /\ ~Race,
           NoFault' => NoFault, Flown' => Flown,
           UNCHANGED <<store, saved>>
    PROVE  IInv'
<1> USE DEF IInv
<1>1. Control' /\ Uploads'
  BY ControlNext
<1>2. Alone'
  BY AloneNext
<1>a. \A j \in Instances \ {i} : Bystander(j)
  BY Bystanders
<1>b. \A u \in Types : /\ ~Switching(i, u) /\ ~Switching(i, u)'
                       /\ Writing(i, u)' => u = t
  BY DEF Claiming, Switching, Writing, Receiving, None
<1>c. \A j \in Instances, u \in Types : Switching(j, u)' =>
        /\ j # i /\ Switching(j, u) /\ InFlight(j)' = InFlight(j) /\ call'[j] = call[j]
        /\ ~raced' => u # t
  BY <1>a, <1>b DEF Bystander, Race
<1>d. \A j \in Instances, u \in Types : Switching(j, u) => Switching(j, u)'
  BY <1>a, <1>b DEF Bystander
<1>e. \A j \in Instances, u \in Types : Writing(j, u)' =>
        \/ j = i /\ u = t
        \/ j # i /\ Writing(j, u) /\ mgr'[j] = mgr[j]
  BY <1>a, <1>b DEF Bystander
<1>3. FlagHeld'
  BY DEF FlagHeld, Receiving
<1>4. Written'
  <2>1. ASSUME ~raced', NEW j \in Instances PROVE WrittenOf(j)'
    <3>1. CASE j = i
      BY <3>1 DEF WrittenOf
    <3>2. CASE j # i
      BY <2>1, <3>2 DEF WrittenOf, Written, Others
    <3> QED
      BY <3>1, <3>2
  <2> QED
    BY <2>1 DEF Written
<1>f. static.plan[t].id \in 0..1 /\ mgr'[i].id # static.plan[t].id
  <2>1. static.plan[t] \in Plan
    BY DEF TypeOK, Plans
  <2>2. static.plan[t].id \in 0..1
    BY <2>1 DEF Plan
  <2> QED
    BY <2>2, PlanTypes
<1>5. SavedWhole'
  <2> SUFFICES ASSUME NoFault', NEW u \in Types
               PROVE  /\ Holds(store, u, saved[u])
                      /\ \A j \in Instances : Switching(j, u)' => Holds(store, u, InFlight(j)')
                      /\ \A j \in Instances : Writing(j, u)' =>
                          /\ Apart(j, saved[u])'
                          /\ \A k \in Instances : Switching(k, u)' => Apart(j, InFlight(k))'
    BY DEF SavedWhole
  <2>0. NoFault /\ ~raced /\ ~raced'
    BY DEF NoFault
  <2>1. /\ Holds(store, u, saved[u])
        /\ \A j \in Instances : Switching(j, u) => Holds(store, u, InFlight(j))
        /\ \A j \in Instances : Writing(j, u) =>
            /\ Apart(j, saved[u])
            /\ \A k \in Instances : Switching(k, u) => Apart(j, InFlight(k))
    BY <2>0 DEF SavedWhole
  <2>2. \A j \in Instances : Switching(j, u)' => Holds(store, u, InFlight(j)')
    BY <2>1, <1>c
  <2>3. ASSUME NEW j \in Instances, Writing(j, u)'
        PROVE  /\ Apart(j, saved[u])'
               /\ \A k \in Instances : Switching(k, u)' => Apart(j, InFlight(k))'
    <3>1. CASE j = i
      <4>1. u = t /\ \A k \in Instances : ~Switching(k, u)'
        BY <2>0, <2>3, <3>1, <1>c, <1>e
      <4>2. static.plan[u] = saved[u]
        BY <2>0, <4>1, <1>d DEF Synchronous
      <4> QED
        BY <3>1, <4>1, <4>2, <1>f DEF Apart
    <3>2. CASE j # i
      BY <2>1, <2>3, <3>2, <1>c, <1>e DEF Apart
    <3> QED
      BY <3>1, <3>2
  <2> QED
    BY <2>1, <2>2, <2>3
<1>6. Synchronous'
  BY <1>c, <1>d DEF Synchronous
<1>7. FlownWhole'
  <2>1. ASSUME Flown', NEW j \in Instances, Writing(j, Mission)' PROVE Apart(j, static.plan[Mission])'
    BY <2>1, <1>e, <1>f, PlanTypes DEF FlownWhole, Apart
  <2> QED
    BY <2>1, <1>c, PlanTypes DEF FlownWhole
<1> QED
  BY <1>1, <1>2, <1>3, <1>4, <1>5, <1>6, <1>7
-----------------------------------------------------------------------------
(* The initial states and a loss of power                                   *)

LEMMA NewManagerType ==
    ASSUME NEW plans \in Plans
    PROVE  NewManager(plans) \in Manager /\ NewManager(plans).state = "IDLE"
<1> DEFINE my == [t \in Types |-> plans[t].id]
<1>1. my \in [Types -> 0..1]
  <2>1. ASSUME NEW t \in Types PROVE plans[t].id \in 0..1
    <3>1. plans[t] \in Plan
      BY DEF Plans
    <3> QED
      BY <3>1 DEF Plan
  <2> QED
    BY <2>1
<1> HIDE DEF my
<1>2. Idle(my) \in Manager /\ Idle(my).state = "IDLE"
  BY <1>1, PlanTypes DEF Manager, Idle
<1> QED
  BY <1>2 DEF NewManager, my

LEMMA InitIInv == Init => IInv
<1> SUFFICES ASSUME Init PROVE IInv
  OBVIOUS
<1>1. PICK x \in Items :
        LET items == [n \in 1..MaxItems |-> x]
            plans == [t \in Types |-> [id |-> 0, count |-> MaxItems, crc |-> items]] IN
        /\ static = [busy |-> FALSE, plan |-> plans]
        /\ mgr = [i \in Instances |-> NewManager(plans)]
        /\ store = [t \in Types |-> [id \in 0..1 |-> [n \in 0..MaxItems - 1 |->
                      IF id = 0 THEN items[n + 1] ELSE None]]]
        /\ saved = plans
        /\ topic = plans
  BY DEF Init
<1> DEFINE items == [n \in 1..MaxItems |-> x]
           plan == [id |-> 0, count |-> MaxItems, crc |-> items]
           plans == [t \in Types |-> plan]
<1>2. items \in Seq(Items) /\ Len(items) = MaxItems
  BY PlanTypes
<1>3. plan \in Plan
  BY <1>2, PlanTypes DEF Plan
<1> HIDE DEF items
<1>4. plans \in Plans /\ \A t \in Types : plans[t] = plan
  BY <1>3 DEF Plans
<1>5. static = [busy |-> FALSE, plan |-> plans] /\ saved = plans /\ topic = plans
  BY <1>1 DEF items
<1>6. mgr = [i \in Instances |-> NewManager(plans)]
  BY <1>1 DEF items
<1>7. \A t \in Types : Holds(store, t, plan)
  <2>1. \A n \in 1..MaxItems : items[n] = x
    BY DEF items
  <2>2. store = [t \in Types |-> [id \in 0..1 |-> [n \in 0..MaxItems - 1 |->
                   IF id = 0 THEN items[n + 1] ELSE None]]]
    BY <1>1 DEF items
  <2>3. \A t \in Types, n \in 1..MaxItems : store[t][0][n - 1] = items[n]
    BY <2>2, PlanTypes
  <2> QED
    BY <1>2, <2>3 DEF Holds
<1>8. store \in [Types -> [0..1 -> [0..MaxItems - 1 -> Items \cup {None}]]]
  <2>1. store = [t \in Types |-> [id \in 0..1 |-> [n \in 0..MaxItems - 1 |->
                   IF id = 0 THEN x ELSE None]]]
    BY <1>1, PlanTypes
  <2> QED
    BY <2>1
<1> HIDE DEF plan, plans
<1>9. \A i \in Instances : mgr[i] \in Manager /\ mgr[i].state = "IDLE"
  BY <1>4, <1>6, NewManagerType
<1>10. \A i \in Instances : call[i] = NoCall /\ call[i].op = None
  BY DEF Init, NoCall
<1>11. TypeOK
  <2>1. static \in [busy : BOOLEAN, plan : Plans]
    BY <1>4, <1>5
  <2>2. mgr \in [Instances -> Manager]
    BY <1>6, <1>9
  <2>3. call \in [Instances -> Calls]
    BY CallTypes DEF Init
  <2>4. /\ fresh \in [Instances -> BOOLEAN] /\ accepted = {} /\ changed = {} /\ raced = FALSE
        /\ spent = [commands |-> 0, faults |-> 0, restarts |-> 0]
    BY DEF Init
  <2> QED
    BY <1>4, <1>5, <1>8, <2>1, <2>2, <2>3, <2>4 DEF TypeOK, Manager
<1>12. \A i \in Instances : ~Changing(i) /\ \A t \in Types :
         ~Switching(i, t) /\ ~Receiving(i, t) /\ ~Writing(i, t)
  BY <1>9, <1>10 DEF Changing, Switching, Receiving, Writing, None
<1>13. Control
  BY <1>10, <1>12 DEF Control, ControlOf, None
<1>14. Uploads
  BY <1>9 DEF Uploads, UploadOf
<1>15. FlagHeld
  BY <1>5 DEF FlagHeld
<1>16. Alone
  BY <1>12 DEF Alone
<1>17. Written
  BY <1>9 DEF Written, WrittenOf
<1>18. SavedWhole
  BY <1>4, <1>5, <1>7, <1>12 DEF SavedWhole
<1>19. Synchronous
  BY <1>5, <1>12 DEF Synchronous
<1>20. FlownWhole
  BY <1>4, <1>5, <1>7, <1>12, PlanTypes DEF FlownWhole
<1> QED
  BY <1>11, <1>13, <1>14, <1>15, <1>16, <1>17, <1>18, <1>19, <1>20 DEF IInv

LEMMA RestartIInv ==
    ASSUME IInv, NEW readable \in SUBSET Types, Restart(readable)
    PROVE  IInv'
<1> USE DEF IInv
<1> DEFINE plans == [t \in Types |-> IF t \in readable THEN saved[t] ELSE NoPlan]
<1>1. plans \in Plans /\ (readable = Types => plans = saved)
  <2>1. saved \in [Types -> Plan]
    BY DEF TypeOK, Plans
  <2> QED
    BY <2>1, PlanTypes DEF Plans
<1>2. /\ static' = [busy |-> FALSE, plan |-> plans]
      /\ mgr' = [i \in Instances |-> NewManager(plans)]
      /\ call' = [i \in Instances |-> NoCall]
      /\ UNCHANGED <<store, saved, raced>>
      /\ Publish(plans)
  BY DEF Restart
<1> HIDE DEF plans
<1>3. /\ spent' \in Spent /\ spent'.restarts = spent.restarts + 1
      /\ spent'.faults = IF readable = Types THEN spent.faults ELSE spent.faults + 1
  <2>1. spent' = [spent EXCEPT !.restarts = @ + 1, !.faults = IF readable = Types THEN @ ELSE @ + 1]
    BY DEF Restart
  <2>2. spent \in Spent
    BY DEF TypeOK, Spent
  <2>3. spent' = [commands |-> spent.commands, restarts |-> spent.restarts + 1,
                  faults |-> IF readable = Types THEN spent.faults ELSE spent.faults + 1]
    BY <2>1, <2>2 DEF Spent
  <2> QED
    BY <2>2, <2>3 DEF Spent
<1>4. spent.restarts \in Nat /\ spent.faults \in Nat
  BY DEF TypeOK
<1>5. \A i \in Instances : mgr'[i] \in Manager /\ mgr'[i].state = "IDLE"
  BY <1>1, <1>2, NewManagerType
<1>6. \A i \in Instances : call'[i] = NoCall /\ call'[i].op = None
  BY <1>2 DEF NoCall
<1>7. TypeOK'
  <2>1. static' \in [busy : BOOLEAN, plan : Plans]
    BY <1>1, <1>2
  <2>2. mgr' \in [Instances -> Manager]
    BY <1>2, <1>5
  <2>3. call' \in [Instances -> Calls]
    BY <1>2, CallTypes
  <2>4. topic' \in Plans /\ fresh' \in [Instances -> BOOLEAN]
    BY <1>1, <1>2 DEF Publish
  <2>5. accepted' \subseteq Instances /\ changed' \subseteq Instances
    BY DEF Restart, NoReply
  <2> QED
    BY <1>2, <1>3, <2>1, <2>2, <2>3, <2>4, <2>5 DEF TypeOK, Spent, Manager
<1>8. \A i \in Instances : ~Changing(i)' /\ \A t \in Types :
         ~Switching(i, t)' /\ ~Receiving(i, t)' /\ ~Writing(i, t)'
  BY <1>5, <1>6 DEF Changing, Switching, Receiving, Writing, None
<1>9. Control' /\ Uploads'
  BY <1>5, <1>6, <1>8 DEF Control, ControlOf, Uploads, UploadOf, None
<1>10. FlagHeld'
  BY <1>2 DEF FlagHeld
<1>11. Alone'
  BY <1>8 DEF Alone
<1>12. Written'
  BY <1>5 DEF Written, WrittenOf
<1>13. NoFault' => NoFault /\ plans = saved
  BY <1>1, <1>2, <1>3, <1>4 DEF NoFault
<1>14. SavedWhole'
  BY <1>2, <1>8, <1>13 DEF SavedWhole
<1>15. Synchronous'
  BY <1>2, <1>8, <1>13 DEF Synchronous
<1>16. Flown' => NoFault'
  BY <1>3, <1>4 DEF Flown, NoFault
<1>17. FlownWhole'
  BY <1>2, <1>8, <1>13, <1>16, PlanTypes DEF FlownWhole, SavedWhole
<1> QED
  BY <1>7, <1>9, <1>10, <1>11, <1>12, <1>14, <1>15, <1>17
-----------------------------------------------------------------------------
(* The actions                                                              *)

LEMMA Monotone ==
    ASSUME TypeOK, ~raced' => ~raced, spent' \in Spent,
           spent'.faults >= spent.faults, spent'.restarts = spent.restarts
    PROVE  (NoFault' => NoFault) /\ (Flown' => Flown)
BY DEF TypeOK, Spent, NoFault, Flown

LEMMA TypeNext ==
    ASSUME TypeOK, History, static' \in Statics, mgr' \in [Instances -> Manager],
           call' \in [Instances -> Calls],
           store' \in [Types -> [0..1 -> [0..MaxItems - 1 -> Items \cup {None}]]],
           saved' \in Plans, topic' \in Plans, fresh' \in [Instances -> BOOLEAN],
           accepted' \subseteq Instances, spent' \in Spent
    PROVE  TypeOK'
BY Histories DEF TypeOK, Statics, Manager, Spent

LEMMA Members == TypeOK => mgr \in [Instances -> Manager] /\ static \in Statics
BY DEF TypeOK, Manager, Statics

\* A step that changes neither a plan nor the storage
LEMMA QuietStep ==
    ASSUME IInv, NEW i \in Instances, History, Others(i),
           static' = static \/ static' = Released(static),
           static' = static /\ mgr[i].state = "GETLIST" => mgr'[i].state = "GETLIST",
           mgr' \in [Instances -> Manager], call' \in [Instances -> Calls],
           UNCHANGED <<store, saved, topic, fresh>>, NoReply,
           Command \/ UNCHANGED spent,
           ControlOf(i)', UploadOf(i)', ~raced' => WrittenOf(i)',
           ~Changing(i), ~Changing(i)',
           mgr'[i].state = "GETLIST" =>
               mgr[i].state = "GETLIST" /\ mgr'[i].type = mgr[i].type /\ mgr'[i].id = mgr[i].id
    PROVE  IInv'
<1>1. TypeOK
  BY DEF IInv
<1>2. /\ static' \in Statics /\ static'.plan = static.plan
      /\ static'.busy => static.busy /\ static' = static
  BY <1>1 DEF TypeOK, Statics, Released
<1>3. spent' \in Spent /\ spent'.faults = spent.faults /\ spent'.restarts = spent.restarts
  BY <1>1, Counts DEF TypeOK, Spent
<1>4. TypeOK'
  BY <1>1, <1>2, <1>3, TypeNext DEF TypeOK, NoReply
<1>5. ~raced' => ~raced /\ ~Race
  BY <1>1, Histories
<1>6. (NoFault' => NoFault) /\ (Flown' => Flown)
  <2>1. spent.faults >= spent.faults
    BY <1>1 DEF TypeOK
  <2> QED
    BY <1>1, <1>3, <1>5, <2>1, Monotone
<1>7. StoreKeeps(i)
  BY StoreKept
<1> QED
  BY <1>2, <1>4, <1>5, <1>6, <1>7, CalmStep

LEMMA HandleCountIInv ==
    ASSUME IInv, NEW i \in Instances, NEW t \in Types, NEW n \in 0..MaxItems + 1, HandleCount(i, t, n)
    PROVE  IInv'
<1> DEFINE c == [op |-> "claim", type |-> t, count |-> n]
<1>1. TypeOK
  BY DEF IInv
<1>2. /\ call' \in [Instances -> Calls] /\ call'[i] = c
      /\ \A j \in Instances \ {i} : call'[j] = call[j]
  BY <1>1, OneCall, CallTypes DEF HandleCount
<1>3. /\ mgr' = mgr /\ static' = static /\ mgr[i].state = "IDLE" /\ call[i].op = None
      /\ UNCHANGED <<store, saved, topic, fresh>> /\ Command /\ NoReply /\ History
  BY DEF HandleCount, shared, Ready
<1>4. ControlOf(i)' /\ UploadOf(i)' /\ WrittenOf(i)' /\ ~Changing(i) /\ ~Changing(i)'
  BY <1>2, <1>3 DEF ControlOf, UploadOf, WrittenOf, Changing, None
<1>5. mgr' \in [Instances -> Manager] /\ Others(i)
  BY <1>1, <1>2, <1>3, Members DEF Others
<1> QED
  BY <1>2, <1>3, <1>4, <1>5, QuietStep

LEMMA ClaimIInv ==
    ASSUME IInv, NEW i \in Instances, Claim(i)
    PROVE  IInv'
<1> DEFINE c == call[i]
<1>1. TypeOK /\ ControlOf(i) /\ mgr \in [Instances -> Manager] /\ static \in Statics
  BY Members DEF IInv, Control
<1>2. c.op = "claim" /\ c.type \in Types /\ c.count \in 0..MaxItems + 1
  BY <1>1, CallFields DEF Claim, TypeOK
<1>3. mgr[i].state = "IDLE" /\ ~Changing(i) /\ mgr[i] \in Manager /\ mgr[i].my \in [Types -> 0..1]
  BY <1>1, <1>2 DEF ControlOf, Changing, Manager
<1>4. /\ UNCHANGED <<store, saved, topic, fresh, spent>> /\ NoReply /\ History
  BY DEF Claim
<1>5. CASE TooMany(c.count) /\ static' = Released(static) /\ Return(i) /\ mgr' = mgr
  <2>1. /\ call' \in [Instances -> Calls] /\ call'[i].op = None
        /\ \A j \in Instances \ {i} : call'[j] = call[j]
    BY <1>1, <1>5, OneCall, CallTypes DEF Return, NoCall
  <2>2. ControlOf(i)' /\ UploadOf(i)' /\ WrittenOf(i)' /\ ~Changing(i)'
    BY <2>1, <1>3, <1>5 DEF ControlOf, UploadOf, WrittenOf, Changing, None
  <2>3. mgr' \in [Instances -> Manager] /\ Others(i)
    BY <1>1, <1>5, <2>1 DEF Others
  <2> QED
    BY <1>3, <1>4, <1>5, <2>1, <2>2, <2>3, QuietStep
<1>a. ~raced' => ~raced /\ ~Race
  BY <1>1, <1>4, Histories
<1>b. (NoFault' => NoFault) /\ (Flown' => Flown) /\ spent' \in Spent
  BY <1>4, <1>a, <1>1 DEF NoFault, Flown, TypeOK, Spent
<1>6. CASE c.count = 0 /\ Begin(i, mgr, c.type, Cleared(c.type), TRUE, Then("count", <<>>))
  <2> DEFINE plan == Cleared(c.type)
  <2>0. plan \in Plan /\ plan.count = 0 /\ plan.crc = <<>> /\ <<>> \in Todo
    BY <1>1, <1>2, PlanTypes DEF Cleared, Todo
  <2>1. /\ static' \in Statics /\ static'.busy = TRUE
        /\ static'.plan = Switched(c.type, plan)
        /\ mgr' \in [Instances -> Manager] /\ SameTransfer(mgr'[i], mgr[i])
        /\ \A j \in Instances \ {i} : mgr'[j] = mgr[j] /\ call'[j] = call[j]
        /\ call' \in [Instances -> Calls] /\ Changing(i)' /\ call'[i].then.what = "count"
        /\ \A u \in Types : Switching(i, u)' <=> u = c.type
        /\ InFlight(i)' = plan
    BY <1>1, <1>2, <1>6, <2>0, BeginEffect
  <2> HIDE DEF plan
  <2>2. mgr'[i].state = "IDLE"
    BY <1>3, <2>1 DEF SameTransfer
  <2>3. ControlOf(i)' /\ UploadOf(i)' /\ WrittenOf(i)' /\ Holder(i)'
    BY <2>0, <2>1, <2>2 DEF ControlOf, UploadOf, WrittenOf, Changing, Holder
  <2>4. TypeOK'
    BY <1>1, <1>4, <1>b, <2>1, TypeNext DEF TypeOK, NoReply
  <2>5. Others(i) /\ StoreKeeps(i)
    BY <1>4, <2>1, StoreKept DEF Others
  <2> QED
    BY <1>2, <1>3, <1>4, <1>a, <1>b, <2>0, <2>1, <2>3, <2>4, <2>5, BeginStep
<1>7. CASE /\ c.count > 0 /\ ~TooMany(c.count)
           /\ static' = [static EXCEPT !.busy = TRUE]
           /\ mgr' = [mgr EXCEPT ![i] = Receiver(@.my, c.type, c.count)]
           /\ Return(i)
  <2>1. /\ call' \in [Instances -> Calls] /\ call'[i] = NoCall /\ call'[i].op = None
        /\ \A j \in Instances \ {i} : call'[j] = call[j]
    BY <1>1, <1>7, OneCall, CallTypes DEF Return, NoCall
  <2>2. c.count \in 1..MaxItems
    BY <1>2, <1>7, PlanTypes DEF TooMany
  <2>3. Receiver(mgr[i].my, c.type, c.count) \in Manager
    BY <1>1, <1>2, <1>3, <2>2, ReceiverType
  <2>4. /\ mgr' \in [Instances -> Manager] /\ mgr'[i] = Receiver(mgr[i].my, c.type, c.count)
        /\ \A j \in Instances \ {i} : mgr'[j] = mgr[j]
    BY <1>1, <1>7, <2>3
  <2>5. /\ mgr'[i].state = "GETLIST" /\ mgr'[i].type = c.type /\ mgr'[i].seq = 0
        /\ mgr'[i].count = c.count /\ mgr'[i].crc = <<>>
        /\ mgr'[i].id = Other(static.plan[c.type].id)
    BY <2>4 DEF Receiver, UploadArea
  <2>6. static' \in Statics /\ static'.plan = static.plan
    BY <1>1, <1>7 DEF Statics
  <2>7. TypeOK'
    BY <1>1, <1>4, <1>b, <2>1, <2>4, <2>6, TypeNext DEF TypeOK, NoReply
  <2>a. PICK t \in Types : t = c.type
    BY <1>2
  <2>8. Others(i) /\ Claiming(i, t) /\ Receiving(i, t)'
    BY <1>2, <2>a, <2>1, <2>4, <2>5 DEF Others, Claiming, Receiving
  <2>9. ControlOf(i)' /\ UploadOf(i)'
    BY <2>1, <2>2, <2>5 DEF ControlOf, UploadOf, Changing, None
  <2> QED
    BY <2>a, <1>4, <1>a, <1>b, <2>1, <2>5, <2>6, <2>7, <2>8, <2>9, UploadStep
<1> QED
  BY <1>5, <1>6, <1>7 DEF Claim

\* What is idle or in no transfer of its own has nothing to show.
LEMMA Resting ==
    ASSUME NEW i \in Instances, call'[i].op = None, mgr'[i].state # "GETLIST"
    PROVE  ControlOf(i)' /\ UploadOf(i)' /\ WrittenOf(i)' /\ ~Changing(i)'
BY DEF ControlOf, UploadOf, WrittenOf, Changing, None

LEMMA ReturnEffect ==
    ASSUME TypeOK, NEW i \in Instances, Return(i)
    PROVE  /\ call' \in [Instances -> Calls] /\ call'[i].op = None
           /\ \A j \in Instances \ {i} : call'[j] = call[j]
BY OneCall, CallTypes DEF Return, NoCall

\* The instance goes back to idle, and no call is under way.
LEMMA IdleStep ==
    ASSUME IInv, NEW i \in Instances, Ready(i), History, mgr' = SwitchToIdle(mgr, i),
           static' = Released(static) \/ (static' = static /\ mgr[i].state # "GETLIST"),
           UNCHANGED <<call, store, saved, topic, fresh, spent>>, NoReply
    PROVE  IInv'
<1>1. TypeOK /\ mgr \in [Instances -> Manager]
  BY Members DEF IInv
<1>2. /\ mgr' \in [Instances -> Manager] /\ mgr'[i].state = "IDLE"
      /\ \A j \in Instances \ {i} : mgr'[j] = mgr[j]
  BY <1>1, IdleType
<1>3. call' \in [Instances -> Calls] /\ call'[i].op = None /\ ~Changing(i)
  BY <1>1 DEF TypeOK, Ready, Changing, None
<1>4. ControlOf(i)' /\ UploadOf(i)' /\ WrittenOf(i)' /\ ~Changing(i)'
  BY <1>2, <1>3, Resting
<1>5. Others(i)
  BY <1>2 DEF Others
<1>6. CASE static' = Released(static)
  <2>1. static'.busy = FALSE
    BY <1>1, <1>6 DEF Released, TypeOK
  <2>2. ~raced' => ~raced /\ ~Race
    BY <1>1, Histories
  <2>3. static' \in Statics /\ static'.plan = static.plan
    BY <1>1, <1>6 DEF Released, TypeOK, Statics
  <2>4. TypeOK'
    BY <1>1, <1>2, <1>3, <2>3, TypeNext DEF TypeOK, NoReply, Spent
  <2>5. (NoFault' => NoFault) /\ (Flown' => Flown)
    BY <2>2 DEF NoFault, Flown
  <2> QED
    BY <1>2, <1>3, <1>4, <1>5, <2>1, <2>2, <2>3, <2>4, <2>5, CalmStep, StoreKept
<1>7. CASE static' = static /\ mgr[i].state # "GETLIST"
  BY <1>2, <1>3, <1>4, <1>5, <1>7, QuietStep
<1> QED
  BY <1>6, <1>7

LEMMA HandleAckIInv ==
    ASSUME IInv, NEW i \in Instances, NEW t \in Types, NEW type \in {"ACCEPTED", "CANCELLED"},
           HandleAck(i, t, type)
    PROVE  IInv'
BY IdleStep DEF HandleAck

LEMMA TimeoutIInv ==
    ASSUME IInv, NEW i \in Instances, Timeout(i)
    PROVE  IInv'
BY IdleStep DEF Timeout

LEMMA ItemReadIInv ==
    ASSUME IInv, NEW i \in Instances, ItemRead(i)
    PROVE  IInv'
<1>1. TypeOK /\ mgr \in [Instances -> Manager] /\ ControlOf(i)
  BY Members DEF IInv, Control
<1>2. /\ call[i].op = "read" /\ Return(i) /\ NoReply /\ mgr' = mgr /\ static' = static
      /\ UNCHANGED <<store, saved, topic, fresh, spent>> /\ History
  BY DEF ItemRead, shared
<1>3. mgr[i].state = "SENDLIST" /\ ~Changing(i)
  BY <1>1, <1>2 DEF ControlOf, Changing
<1>4. /\ call' \in [Instances -> Calls] /\ call'[i].op = None
      /\ \A j \in Instances \ {i} : call'[j] = call[j]
  BY <1>1, <1>2, ReturnEffect
<1>5. ControlOf(i)' /\ UploadOf(i)' /\ WrittenOf(i)' /\ ~Changing(i)'
  BY <1>2, <1>3, <1>4, Resting
<1>6. Others(i)
  BY <1>2, <1>4 DEF Others
<1> QED
  BY <1>1, <1>2, <1>3, <1>4, <1>5, <1>6, QuietStep

LEMMA HandleRequestIInv ==
    ASSUME IInv, NEW i \in Instances, NEW t \in Types, NEW n \in 0..MaxItems, HandleRequest(i, t, n)
    PROVE  IInv'
<1> DEFINE m == mgr[i]
           next == n = m.seq /\ m.seq < m.count
           expected == next \/ n + 1 = m.seq
           moved == [mgr EXCEPT ![i].seq = IF next THEN n + 1 ELSE @]
           a == ReadArea(i, t)
           c == [op |-> "read", seq |-> n, id |-> a]
<1>1. TypeOK /\ mgr \in [Instances -> Manager]
  BY Members DEF IInv
<1>2. /\ Ready(i) /\ m.state = "SENDLIST" /\ NoReply /\ static' = static
      /\ UNCHANGED <<store, saved, topic, fresh, spent>> /\ History
  BY DEF HandleRequest, shared
<1>3. CASE mgr' = moved /\ Call(i, c)
  <2>1. a \in 0..1
    <3>1. static.plan[t] \in Plan
      BY <1>1 DEF TypeOK, Plans
    <3> QED
      BY <3>1 DEF ReadArea, Plan
  <2>2. c \in Calls
    BY <2>1, CallTypes
  <2>3. /\ call' \in [Instances -> Calls] /\ call'[i] = c
        /\ \A j \in Instances \ {i} : call'[j] = call[j]
    BY <1>1, <1>3, <2>2, OneCall
  <2>4. m.seq \in 0..MaxItems /\ m.count \in 0..MaxItems
    BY <1>1 DEF Manager
  <2>5. (IF next THEN n + 1 ELSE m.seq) \in 0..MaxItems
    BY <2>4, PlanTypes
  <2>6. moved \in [Instances -> Manager]
    <3> DEFINE k == IF next THEN n + 1 ELSE m.seq
    <3>1. moved = [mgr EXCEPT ![i].seq = k]
      BY <1>1
    <3> HIDE DEF k
    <3>2. k \in 0..MaxItems
      BY <2>5 DEF k
    <3>3. [mgr EXCEPT ![i].seq = k] \in [Instances -> Manager]
      BY <1>1, <3>2 DEF Manager
    <3> QED
      BY <3>1, <3>3
  <2>7. mgr'[i].state = "SENDLIST" /\ \A j \in Instances \ {i} : mgr'[j] = mgr[j]
    BY <1>1, <1>2, <1>3 DEF Manager
  <2>8. ControlOf(i)' /\ UploadOf(i)' /\ WrittenOf(i)' /\ ~Changing(i)' /\ ~Changing(i)
    BY <1>2, <2>3, <2>7 DEF ControlOf, UploadOf, WrittenOf, Changing, Ready, None
  <2>9. Others(i)
    BY <2>3, <2>7 DEF Others
  <2>10. mgr' \in [Instances -> Manager]
    BY <1>3, <2>6
  <2> HIDE DEF c, moved
  <2> QED
    BY <1>2, <2>3, <2>7, <2>8, <2>9, <2>10, QuietStep
<1>4. CASE mgr' = SwitchToIdle(mgr, i) /\ UNCHANGED call
  BY <1>2, <1>4, IdleStep
<1> QED
  BY <1>3, <1>4 DEF HandleRequest

LEMMA RepeatCountIInv ==
    ASSUME IInv, NEW i \in Instances, RepeatCount(i)
    PROVE  IInv'
<1> DEFINE p == [static.plan[mgr[i].type] EXCEPT !.count = mgr[i].count]
<1>1. TypeOK /\ mgr \in [Instances -> Manager]
  BY Members DEF IInv
<1>2. /\ Ready(i) /\ mgr[i].state = "SENDLIST" /\ NoReply /\ static' = static
      /\ UNCHANGED <<call, store, saved, topic, fresh, spent>> /\ History
      /\ mgr' = [mgr EXCEPT ![i].announced = p]
  BY DEF RepeatCount, shared
<1>3. p \in Plan
  <2>1. static.plan[mgr[i].type] \in Plan /\ mgr[i].count \in 0..MaxItems
    BY <1>1 DEF TypeOK, Plans, Manager
  <2> QED
    BY <2>1 DEF Plan
<1> HIDE DEF p
<1>4. /\ mgr' \in [Instances -> Manager] /\ mgr'[i].state = "SENDLIST"
      /\ \A j \in Instances \ {i} : mgr'[j] = mgr[j]
  BY ZenonT(40), <1>1, <1>2, <1>3 DEF Manager
<1>5. call' \in [Instances -> Calls] /\ call'[i].op = None /\ ~Changing(i)
  BY <1>1, <1>2 DEF TypeOK, Ready, Changing, None
<1>6. ControlOf(i)' /\ UploadOf(i)' /\ WrittenOf(i)' /\ ~Changing(i)'
  BY <1>4, <1>5, Resting
<1>7. Others(i)
  BY <1>2, <1>4 DEF Others
<1> QED
  BY <1>2, <1>4, <1>5, <1>6, <1>7, QuietStep

LEMMA HandleRequestListIInv ==
    ASSUME IInv, NEW i \in Instances, NEW t \in Types, HandleRequestList(i, t)
    PROVE  IInv'
<1> DEFINE m1 == [mgr EXCEPT ![i].state = "SENDLIST"]
           next == [m1 EXCEPT ![i].type = t]
<1>1. TypeOK /\ mgr \in [Instances -> Manager]
  BY Members DEF IInv
<1>2. next = [mgr EXCEPT ![i].state = "SENDLIST", ![i].type = t]
  BY Zenon
<1>3. /\ next \in [Instances -> Manager] /\ next[i].state = "SENDLIST" /\ next[i].type = t
      /\ \A j \in Instances \ {i} : next[j] = mgr[j]
  <2>1. m1 \in [Instances -> Manager] /\ m1[i].state = "SENDLIST" /\ \A j \in Instances \ {i} : m1[j] = mgr[j]
    BY <1>1 DEF Manager
  <2> HIDE DEF m1
  <2> QED
    BY ZenonT(40), <2>1 DEF Manager
<1>4. /\ Ready(i) /\ NoReply /\ static' = static
      /\ mgr[i].state \in {"IDLE", "SENDLIST"}
      /\ Command /\ UNCHANGED <<store, saved, topic, fresh>> /\ History
  BY DEF HandleRequestList, shared
<1>5. \/ t = Mission /\ SendList(i, next, static.plan[t]) /\ UNCHANGED call
      \/ t # Mission /\ mgr' = next /\ Call(i, [op |-> "load"])
  BY <1>2 DEF HandleRequestList
<1> HIDE DEF next, m1
<1>6. ~Changing(i)
  BY <1>4 DEF Ready, Changing, None
<1>7. CASE t = Mission /\ SendList(i, next, static.plan[t]) /\ UNCHANGED call
  <2>1. static.plan[t] \in Plan
    BY <1>1 DEF TypeOK, Plans
  <2>2. /\ mgr' \in [Instances -> Manager] /\ mgr'[i].state = "SENDLIST"
        /\ \A j \in Instances \ {i} : mgr'[j] = mgr[j]
    BY <1>3, <1>7, <2>1, SendListType
  <2>3. call' \in [Instances -> Calls] /\ call'[i].op = None
    BY <1>1, <1>4, <1>7 DEF TypeOK, Ready
  <2>4. ControlOf(i)' /\ UploadOf(i)' /\ WrittenOf(i)' /\ ~Changing(i)'
    BY <2>2, <2>3, Resting
  <2>5. Others(i)
    BY <1>7, <2>2 DEF Others
  <2> QED
    BY <1>4, <1>6, <2>2, <2>3, <2>4, <2>5, QuietStep
<1>8. CASE t # Mission /\ mgr' = next /\ Call(i, [op |-> "load"])
  <2>1. /\ call' \in [Instances -> Calls] /\ call'[i].op = "load"
        /\ \A j \in Instances \ {i} : call'[j] = call[j]
    BY <1>1, <1>8, OneCall, CallTypes
  <2>2. ControlOf(i)' /\ UploadOf(i)' /\ WrittenOf(i)' /\ ~Changing(i)'
    BY <1>3, <1>8, <2>1 DEF ControlOf, UploadOf, WrittenOf, Changing
  <2>3. Others(i)
    BY <1>3, <1>8, <2>1 DEF Others
  <2> QED
    BY <1>3, <1>4, <1>6, <1>8, <2>1, <2>2, <2>3, QuietStep
<1> QED
  BY <1>5, <1>7, <1>8

\* Loading the statistics of a type changes a plan only in a race or after a fault.
LEMMA LoadKeeps ==
    ASSUME IInv, NEW i \in Instances, NEW t \in Types, t # Mission, Loading(i, t), ~Changing(i),
           NEW ok \in BOOLEAN, Access(ok), ~raced' => ~raced /\ ~Race
    PROVE  /\ NoFault' => Load(t, ok).plan = static.plan
           /\ Load(t, ok).plan[Mission] = static.plan[Mission]
<1>1. TypeOK
  BY DEF IInv
<1>2. Load(t, ok).plan = IF ok THEN [static.plan EXCEPT ![t] = saved[t]] ELSE static.plan
  BY <1>1, LoadEffect
<1>3. static.plan \in [Types -> Plan]
  BY <1>1 DEF TypeOK, Plans
<1>4. ASSUME NoFault' PROVE Load(t, ok).plan = static.plan
  <2>1. ~raced /\ ~Race /\ NoFault
    BY <1>1, <1>4, Counts DEF NoFault, TypeOK
  <2>2. \A j \in Instances : ~Switching(j, t)
    BY <2>1, OneType, <1>1 DEF Race
  <2>3. static.plan[t] = saved[t]
    BY <2>1, <2>2 DEF IInv, Synchronous
  <2>4. [static.plan EXCEPT ![t] = saved[t]] = static.plan
    BY <2>3, <1>3
  <2> QED
    BY <1>2, <2>4
<1> QED
  BY <1>2, <1>3, <1>4, PlanTypes

LEMMA ListLoadedIInv ==
    ASSUME IInv, NEW i \in Instances, NEW ok \in BOOLEAN, ListLoaded(i, ok)
    PROVE  IInv'
<1>1. TypeOK /\ mgr \in [Instances -> Manager] /\ ControlOf(i) /\ mgr[i] \in Manager
  BY Members DEF IInv, Control
<1>2. PICK t \in Types : t = mgr[i].type
  BY <1>1 DEF Manager
<1>3. /\ call[i].op = "load" /\ Access(ok) /\ static' = Load(t, ok)
      /\ SendList(i, Loaded(i, t, ok), static'.plan[t])
      /\ Return(i) /\ NoReply /\ UNCHANGED <<store, saved, topic, fresh>> /\ History
  BY <1>2 DEF ListLoaded
<1>4. t # Mission /\ mgr[i].state = "SENDLIST" /\ ~Changing(i) /\ Loading(i, t)
  BY <1>1, <1>2, <1>3 DEF ControlOf, Changing, Loading
<1>5. /\ static' \in Statics /\ static'.busy = static.busy
      /\ Loaded(i, t, ok) \in [Instances -> Manager]
      /\ Loaded(i, t, ok)[i].state = "SENDLIST"
      /\ \A j \in Instances \ {i} : Loaded(i, t, ok)[j] = mgr[j]
  BY ZenonT(40), <1>1, <1>3, <1>4, LoadEffect DEF SameTransfer
<1>6. /\ mgr' \in [Instances -> Manager] /\ mgr'[i].state = "SENDLIST"
      /\ \A j \in Instances \ {i} : mgr'[j] = mgr[j]
  <2>1. static'.plan[t] \in Plan
    BY <1>5 DEF Statics, Plans
  <2> DEFINE m == Loaded(i, t, ok)
  <2>2. PICK p \in Plan : p = static'.plan[t]
    BY <2>1
  <2>3. m \in [Instances -> Manager] /\ m[i].state = "SENDLIST" /\ \A j \in Instances \ {i} : m[j] = mgr[j]
    BY <1>5
  <2>4. SendList(i, m, p)
    BY <1>3, <2>2
  <2> HIDE DEF m
  <2> QED
    BY <2>3, <2>4, SendListType
<1>7. /\ call' \in [Instances -> Calls] /\ call'[i].op = None
      /\ \A j \in Instances \ {i} : call'[j] = call[j]
  BY <1>1, <1>3, ReturnEffect
<1>8. ControlOf(i)' /\ UploadOf(i)' /\ WrittenOf(i)' /\ ~Changing(i)'
  BY <1>6, <1>7, Resting
<1>9. Others(i)
  BY <1>6, <1>7 DEF Others
<1>10. ~raced' => ~raced /\ ~Race
  BY <1>1, <1>3, Histories
<1>11. /\ NoFault' => static'.plan = static.plan
       /\ static'.plan[Mission] = static.plan[Mission]
  BY <1>3, <1>4, <1>10, LoadKeeps
<1>12. spent' \in Spent /\ spent'.faults >= spent.faults /\ spent'.restarts = spent.restarts
  BY <1>1, <1>3, Counts DEF TypeOK
<1>13. (NoFault' => NoFault) /\ (Flown' => Flown)
  BY <1>1, <1>10, <1>12, Monotone
<1>14. TypeOK'
  BY <1>1, <1>3, <1>5, <1>6, <1>7, <1>12, TypeNext DEF TypeOK, NoReply
<1> QED
  BY <1>3, <1>4, <1>5, <1>6, <1>8, <1>9, <1>10, <1>11, <1>13, <1>14, CalmStep, StoreKept

LEMMA HandleItemIInv ==
    ASSUME IInv, NEW i \in Instances, NEW t \in Types, NEW n \in 0..MaxItems - 1,
           NEW x \in Items \cup {Invalid}, HandleItem(i, t, n, x)
    PROVE  IInv'
<1>1. TypeOK /\ mgr \in [Instances -> Manager] /\ UploadOf(i) /\ mgr[i] \in Manager
  BY Members DEF IInv, Uploads
<1>2. /\ Ready(i) /\ mgr[i].state = "GETLIST" /\ History
      /\ UNCHANGED <<store, saved, topic, fresh, spent>>
  BY DEF HandleItem
<1>3. CASE Abort(i) /\ UNCHANGED call
  BY <1>2, <1>3, IdleStep DEF Abort
<1>4. CASE /\ x \in Items
           /\ mgr' = [mgr EXCEPT ![i].crc = Append(@, x)]
           /\ Call(i, [op |-> "item", item |-> x])
           /\ NoReply /\ static' = static
  <2> DEFINE crc == Append(mgr[i].crc, x)
  <2>0. mgr[i].crc \in Seq(Items) /\ mgr[i].seq \in Nat
    BY <1>1 DEF Manager
  <2>1. /\ crc \in Seq(Items) /\ Len(crc) = Len(mgr[i].crc) + 1 /\ crc[Len(crc)] = x
        /\ \A k \in 1..Len(mgr[i].crc) : crc[k] = mgr[i].crc[k]
    BY <1>4, <2>0
  <2>2. mgr' = [mgr EXCEPT ![i].crc = crc]
    BY <1>4
  <2> HIDE DEF crc
  <2>3. /\ mgr' \in [Instances -> Manager] /\ mgr'[i].crc = crc
        /\ mgr'[i].state = "GETLIST" /\ mgr'[i].type = mgr[i].type /\ mgr'[i].id = mgr[i].id
        /\ mgr'[i].seq = mgr[i].seq /\ mgr'[i].count = mgr[i].count
        /\ \A j \in Instances \ {i} : mgr'[j] = mgr[j]
    BY <1>1, <1>2, <2>1, <2>2 DEF Manager
  <2>4. /\ call' \in [Instances -> Calls] /\ call'[i] = [op |-> "item", item |-> x]
        /\ \A j \in Instances \ {i} : call'[j] = call[j]
    BY <1>1, <1>4, OneCall, CallTypes
  <2>5. ~Changing(i) /\ ~Changing(i)' /\ ControlOf(i)'
    BY <1>2, <2>3, <2>4 DEF Changing, ControlOf, Ready, None
  <2>6. Len(mgr[i].crc) = mgr[i].seq /\ mgr[i].seq < mgr[i].count
    BY <1>1, <1>2, <2>0, <2>5 DEF UploadOf, Ready, None
  <2>7. UploadOf(i)'
    BY <2>0, <2>1, <2>3, <2>4, <2>5, <2>6 DEF UploadOf
  <2>8. ~raced' => WrittenOf(i)'
    <3>1. ~raced' => WrittenOf(i)
      BY <1>1, <1>2, Histories DEF IInv, Written
    <3> QED
      BY <1>2, <3>1, <2>1, <2>3, <2>6 DEF WrittenOf
  <2>9. Others(i)
    BY <2>3, <2>4 DEF Others
  <2> QED
    BY <1>2, <1>4, <2>3, <2>4, <2>5, <2>7, <2>8, <2>9, QuietStep
<1> QED
  BY <1>3, <1>4 DEF HandleItem

\* An idle instance begins to clear a plan or to save it again.
LEMMA BeginIdle ==
    ASSUME IInv, NEW i \in Instances, NEW t \in Types, NEW plan \in Plan, History,
           ~Changing(i), mgr[i].state = "IDLE", Others(i),
           static' \in Statics, static'.busy = static.busy, static'.plan = Switched(t, plan),
           mgr' \in [Instances -> Manager], SameTransfer(mgr'[i], mgr[i]),
           call' \in [Instances -> Calls], Changing(i)', InFlight(i)' = plan,
           \A u \in Types : Switching(i, u)' <=> u = t,
           call'[i].then.what # "upload",
           \/ plan.count = 0 /\ plan.crc = <<>> /\ call'[i].then.what # "current"
           \/ t = Mission /\ plan = static.plan[t] /\ call'[i].then.what = "current"
              /\ call'[i].op = "state",
           UNCHANGED <<store, saved, topic, fresh>>, NoReply, Command \/ UNCHANGED spent
    PROVE  IInv'
<1>1. TypeOK
  BY DEF IInv
<1>2. mgr'[i].state = "IDLE"
  BY DEF SameTransfer
<1>3. ControlOf(i)'
  BY <1>2 DEF ControlOf, Changing
<1>4. UploadOf(i)' /\ WrittenOf(i)'
  BY <1>2 DEF UploadOf, WrittenOf
<1>5. spent' \in Spent /\ spent'.faults = spent.faults /\ spent'.restarts = spent.restarts
  BY <1>1, Counts DEF TypeOK, Spent
<1>6. TypeOK'
  BY <1>1, <1>5, TypeNext DEF TypeOK, NoReply
<1>7. ~raced' => ~raced /\ ~Race
  BY <1>1, Histories
<1>8. (NoFault' => NoFault) /\ (Flown' => Flown)
  <2>1. spent.faults >= spent.faults
    BY <1>1 DEF TypeOK
  <2> QED
    BY <1>1, <1>5, <1>7, <2>1, Monotone
<1>9. ~Holder(i)
  BY DEF Holder
<1> QED
  BY <1>3, <1>4, <1>6, <1>7, <1>8, <1>9, BeginStep, StoreKept

LEMMA HandleSetCurrentIInv ==
    ASSUME IInv, NEW i \in Instances, HandleSetCurrent(i)
    PROVE  IInv'
<1>1. TypeOK /\ mgr \in [Instances -> Manager] /\ static \in Statics
  BY Members DEF IInv
<1>2. /\ Ready(i) /\ mgr[i].state = "IDLE" /\ Command /\ NoReply /\ History
      /\ BeginActive(i, mgr, static.plan[Mission], static.busy, Then("current", <<>>))
      /\ UNCHANGED <<store, saved, topic, fresh>>
  BY DEF HandleSetCurrent
<1>3. PICK plan \in Plan : plan = static.plan[Mission]
  BY <1>1, PlanTypes
<1>4. PICK busy \in BOOLEAN : busy = static.busy
  BY <1>1 DEF Statics
<1>5. <<>> \in Todo
  BY DEF Todo
<1>6. BeginActive(i, mgr, plan, busy, Then("current", <<>>))
  BY <1>2, <1>3, <1>4
<1>7. /\ static' \in Statics /\ static'.busy = busy
      /\ static'.plan = Switched(Mission, plan)
      /\ mgr' \in [Instances -> Manager] /\ SameTransfer(mgr'[i], mgr[i])
      /\ \A j \in Instances \ {i} : mgr'[j] = mgr[j] /\ call'[j] = call[j]
      /\ call' \in [Instances -> Calls] /\ call'[i].op = "state"
      /\ call'[i].then.what = "current"
      /\ InFlight(i)' = plan
  BY <1>1, <1>5, <1>6, BeginActiveEffect
<1>8. ~Changing(i) /\ Changing(i)' /\ \A u \in Types : Switching(i, u)' <=> u = Mission
  BY <1>2, <1>7 DEF Changing, Switching, Ready, None
<1>9. Mission \in Types /\ Others(i)
  BY <1>7, PlanTypes DEF Others
<1> QED
  BY <1>2, <1>3, <1>4, <1>7, <1>8, <1>9, BeginIdle

LEMMA HandleClearIInv ==
    ASSUME IInv, NEW i \in Instances, NEW t \in Types, HandleClear(i, t)
    PROVE  IInv'
<1>1. TypeOK /\ mgr \in [Instances -> Manager] /\ static \in Statics
  BY Members DEF IInv
<1>2. /\ Ready(i) /\ mgr[i].state = "IDLE" /\ Command /\ NoReply /\ History
      /\ Begin(i, mgr, t, Cleared(t), static.busy, Then("clear", <<>>))
      /\ UNCHANGED <<store, saved, topic, fresh>>
  BY DEF HandleClear
<1>3. PICK plan \in Plan : plan = Cleared(t)
  BY <1>1, PlanTypes
<1>4. PICK busy \in BOOLEAN : busy = static.busy
  BY <1>1 DEF Statics
<1>5. <<>> \in Todo /\ plan.count = 0 /\ plan.crc = <<>>
  BY <1>3 DEF Todo, Cleared
<1>6. Begin(i, mgr, t, plan, busy, Then("clear", <<>>))
  BY <1>2, <1>3, <1>4
<1>7. /\ static' \in Statics /\ static'.busy = busy
      /\ static'.plan = Switched(t, plan)
      /\ mgr' \in [Instances -> Manager] /\ SameTransfer(mgr'[i], mgr[i])
      /\ \A j \in Instances \ {i} : mgr'[j] = mgr[j] /\ call'[j] = call[j]
      /\ call' \in [Instances -> Calls] /\ Changing(i)' /\ call'[i].then.what = "clear"
      /\ \A u \in Types : Switching(i, u)' <=> u = t
      /\ InFlight(i)' = plan
  BY <1>1, <1>5, <1>6, BeginEffect
<1>8. ~Changing(i)
  BY <1>2 DEF Changing, Ready, None
<1>9. Others(i)
  BY <1>7 DEF Others
<1> QED
  BY <1>2, <1>4, <1>5, <1>7, <1>8, <1>9, BeginIdle

LEMMA HandleClearAllIInv ==
    ASSUME IInv, NEW i \in Instances, HandleClearAll(i)
    PROVE  IInv'
<1>1. TypeOK /\ mgr \in [Instances -> Manager] /\ static \in Statics
  BY Members DEF IInv
<1>2. /\ Ready(i) /\ mgr[i].state = "IDLE" /\ Command /\ NoReply /\ History
      /\ BeginActive(i, mgr, Cleared(Mission), static.busy, Then("clear", StatTypes))
      /\ UNCHANGED <<store, saved, topic, fresh>>
  BY DEF HandleClearAll
<1>3. PICK plan \in Plan : plan = Cleared(Mission)
  BY <1>1, PlanTypes
<1>4. PICK busy \in BOOLEAN : busy = static.busy
  BY <1>1 DEF Statics
<1>5. StatTypes \in Todo /\ plan.count = 0 /\ plan.crc = <<>>
  BY <1>3, MissionAssumption DEF Todo, Cleared
<1>6. BeginActive(i, mgr, plan, busy, Then("clear", StatTypes))
  BY <1>2, <1>3, <1>4
<1>7. /\ static' \in Statics /\ static'.busy = busy
      /\ static'.plan = Switched(Mission, plan)
      /\ mgr' \in [Instances -> Manager] /\ SameTransfer(mgr'[i], mgr[i])
      /\ \A j \in Instances \ {i} : mgr'[j] = mgr[j] /\ call'[j] = call[j]
      /\ call' \in [Instances -> Calls] /\ call'[i].op = "state"
      /\ call'[i].then.what = "clear"
      /\ InFlight(i)' = plan
  BY <1>1, <1>5, <1>6, BeginActiveEffect
<1>8. ~Changing(i) /\ Changing(i)' /\ \A u \in Types : Switching(i, u)' <=> u = Mission
  BY <1>2, <1>7 DEF Changing, Switching, Ready, None
<1>9. Mission \in Types /\ Others(i)
  BY <1>7, PlanTypes DEF Others
<1> QED
  BY <1>2, <1>4, <1>5, <1>7, <1>8, <1>9, BeginIdle

LEMMA ClearNextIInv ==
    ASSUME IInv, NEW i \in Instances, ClearNext(i)
    PROVE  IInv'
<1>1. TypeOK /\ mgr \in [Instances -> Manager] /\ static \in Statics /\ ControlOf(i)
  BY Members DEF IInv, Control
<1>2. /\ call[i].op = "clear" /\ NoReply /\ History
      /\ UNCHANGED <<store, saved, topic, fresh, spent>>
  BY DEF ClearNext
<1>3. PICK todo \in Todo : todo = call[i].todo
  BY <1>1, <1>2, CallFields DEF TypeOK
<1>4. mgr[i].state = "IDLE" /\ ~Changing(i)
  BY <1>1, <1>2 DEF ControlOf, Changing
<1>5. CASE todo = <<>>
  <2>1. Return(i) /\ static' = static /\ mgr' = mgr
    BY <1>3, <1>5 DEF ClearNext
  <2>2. /\ call' \in [Instances -> Calls] /\ call'[i].op = None
        /\ \A j \in Instances \ {i} : call'[j] = call[j]
    BY <1>1, <2>1, ReturnEffect
  <2>3. ControlOf(i)' /\ UploadOf(i)' /\ WrittenOf(i)' /\ ~Changing(i)'
    BY <1>4, <2>1, <2>2, Resting
  <2>4. Others(i)
    BY <2>1, <2>2 DEF Others
  <2> QED
    BY <1>1, <1>2, <1>4, <2>1, <2>2, <2>3, <2>4, QuietStep
<1>6. CASE todo # <<>>
  <2>1. Head(todo) \in ToSet(StatTypes) /\ Tail(todo) \in Todo
    BY <1>6 DEF Todo
  <2>2. PICK t \in ToSet(StatTypes), rest \in Todo : t = Head(todo) /\ rest = Tail(todo)
    BY <2>1
  <2>3. t \in Types
    BY PlanTypes
  <2>4. PICK plan \in Plan : plan = Cleared(t)
    BY <1>1, <2>3, PlanTypes
  <2>5. PICK busy \in BOOLEAN : busy = static.busy
    BY <1>1 DEF Statics
  <2>6. BeginStats(i, mgr, t, plan, busy, Then("clear", rest))
    BY <1>3, <1>6, <2>2, <2>4, <2>5 DEF ClearNext
  <2>7. /\ static' \in Statics /\ static'.busy = busy
        /\ static'.plan = Switched(t, plan)
        /\ mgr' \in [Instances -> Manager] /\ SameTransfer(mgr'[i], mgr[i])
        /\ \A j \in Instances \ {i} : mgr'[j] = mgr[j] /\ call'[j] = call[j]
        /\ call' \in [Instances -> Calls] /\ call'[i].op = "stats" /\ call'[i].type = t
        /\ call'[i].then.what = "clear"
        /\ InFlight(i)' = plan
    BY <1>1, <2>6, BeginStatsEffect
  <2>8. Changing(i)' /\ \A u \in Types : Switching(i, u)' <=> u = t
    BY <2>7 DEF Changing, Switching
  <2>9. plan.count = 0 /\ plan.crc = <<>>
    BY <2>4 DEF Cleared
  <2>10. Others(i)
    BY <2>7 DEF Others
  <2> QED
    BY <1>2, <1>4, <2>3, <2>5, <2>7, <2>8, <2>9, <2>10, BeginIdle
<1> QED
  BY <1>5, <1>6

\* The end of a change, after its write
LEMMA EndChange ==
    ASSUME IInv, NEW i \in Instances, NEW t \in Types, Switching(i, t), History,
           NEW s \in Statics, s.busy = static.busy, s.plan[Mission] = static.plan[Mission],
           \A u \in Types \ {t} : s.plan[u] = static.plan[u] /\ saved'[u] = saved[u],
           NoFault' => saved'[t] = InFlight(i) /\ s.plan[t] = InFlight(i),
           NEW m \in [Instances -> Manager], SameTransfer(m[i], mgr[i]),
           \A j \in Instances \ {i} : m[j] = mgr[j],
           NEW failed \in BOOLEAN, Finish(i, s, m, failed),
           NEW ok \in BOOLEAN, Access(ok),
           saved' \in Plans, topic' \in Plans, fresh' \in [Instances -> BOOLEAN], UNCHANGED store
    PROVE  IInv'
<1>1. TypeOK /\ ControlOf(i) /\ Changing(i)
  BY OneType DEF IInv, Control
<1> DEFINE what == call[i].then.what
<1>2. /\ static' \in Statics /\ static'.plan = s.plan
      /\ static'.busy => s.busy /\ what \notin {"count", "upload"}
      /\ mgr' \in [Instances -> Manager]
      /\ what = "upload" => mgr'[i].state = "IDLE"
      /\ what # "upload" => mgr'[i] = m[i]
      /\ \A j \in Instances \ {i} : mgr'[j] = m[j] /\ call'[j] = call[j]
      /\ call' \in [Instances -> Calls] /\ call'[i].op \in {None, "clear"}
      /\ accepted' \in {{}, {i}}
  BY <1>1, FinishEffect
<1>3. what # "upload" => mgr[i].state = "IDLE"
  BY <1>1 DEF ControlOf
<1>4. mgr'[i].state = "IDLE"
  BY <1>2, <1>3 DEF SameTransfer
<1>5. static'.busy => static.busy /\ ~Holder(i)
  BY <1>2, <1>3 DEF Holder
<1>6. ControlOf(i)' /\ UploadOf(i)' /\ ~Changing(i)'
  BY <1>2, <1>4 DEF ControlOf, UploadOf, Changing, None
<1>7. Others(i)
  BY <1>2 DEF Others
<1>8. spent' \in Spent /\ spent'.faults >= spent.faults /\ spent'.restarts = spent.restarts
  BY <1>1, Counts DEF TypeOK
<1>9. ~raced' => ~raced /\ ~Race
  BY <1>1, Histories
<1>10. (NoFault' => NoFault) /\ (Flown' => Flown)
  BY <1>1, <1>8, <1>9, Monotone
<1>11. TypeOK'
  BY <1>1, <1>2, <1>8, TypeNext DEF TypeOK
<1>12. /\ \A u \in Types \ {t} : saved'[u] = saved[u] /\ static'.plan[u] = static.plan[u]
       /\ NoFault' => saved'[t] = InFlight(i) /\ static'.plan[t] = InFlight(i)
       /\ static'.plan[Mission] = static.plan[Mission]
  BY <1>2
<1> QED
  BY <1>4, <1>5, <1>6, <1>7, <1>9, <1>10, <1>11, <1>12, EndStep

LEMMA CountedEffect ==
    ASSUME static \in Statics, NEW t \in Types, NEW plan \in Plan
    PROVE  /\ Counted(t, plan) \in Statics /\ Counted(t, plan).busy = static.busy
           /\ \A u \in Types \ {t} : Counted(t, plan).plan[u] = static.plan[u]
           /\ static.plan[t].id = plan.id => Counted(t, plan).plan[t] = plan
<1> DEFINE s1 == [static EXCEPT !.plan[t].count = plan.count]
           s2 == [s1 EXCEPT !.plan[t].crc = plan.crc]
<1>0. /\ static.plan \in [Types -> Plan] /\ static.plan[t] \in Plan
      /\ plan.count \in 0..MaxItems /\ plan.crc \in Seq(Items)
  BY DEF Statics, Plans, Plan
<1>1. /\ s1 \in Statics /\ s1.busy = static.busy
      /\ \A u \in Types \ {t} : s1.plan[u] = static.plan[u]
      /\ s1.plan[t].id = static.plan[t].id /\ s1.plan[t].count = plan.count
  BY <1>0 DEF Statics, Plans, Plan
<1> HIDE DEF s1
<1>2. /\ s2 \in Statics /\ s2.busy = static.busy
      /\ \A u \in Types \ {t} : s2.plan[u] = static.plan[u]
      /\ s2.plan[t].id = static.plan[t].id /\ s2.plan[t].count = plan.count
      /\ s2.plan[t].crc = plan.crc
  BY <1>0, <1>1 DEF Statics, Plans, Plan
<1>3. Counted(t, plan) = s2
  BY Zenon DEF Counted, s1
<1> HIDE DEF s2
<1>4. s2.plan[t] \in Plan
  BY <1>2 DEF Statics, Plans
<1>5. static.plan[t].id = plan.id => s2.plan[t] = plan
  BY <1>2, <1>4 DEF Plan
<1> QED
  BY <1>2, <1>3, <1>5

LEMMA PublishType == ASSUME NEW plans \in Plans, Publish(plans)
                     PROVE  topic' \in Plans /\ fresh' \in [Instances -> BOOLEAN]
BY DEF Publish

LEMMA StateWrittenIInv ==
    ASSUME IInv, NEW i \in Instances, NEW ok \in BOOLEAN, NEW done \in BOOLEAN, StateWritten(i, ok, done)
    PROVE  IInv'
<1>1. TypeOK /\ mgr \in [Instances -> Manager] /\ static \in Statics
  BY Members DEF IInv
<1>2. /\ call[i].op = "state" /\ (ok => done) /\ Access(ok) /\ History /\ UNCHANGED store
      /\ saved' = IF done THEN [saved EXCEPT ![Mission] = call[i].pub[Mission]] ELSE saved
      /\ Publish(call[i].pub) /\ Finish(i, static, mgr, FALSE)
  BY DEF StateWritten
<1>3. PICK pub \in Plans : pub = call[i].pub
  BY <1>1, <1>2, CallFields DEF TypeOK
<1>4. topic' \in Plans /\ fresh' \in [Instances -> BOOLEAN]
  BY <1>2, <1>3, PublishType
<1>5. Switching(i, Mission) /\ InFlight(i) = pub[Mission] /\ Mission \in Types /\ pub[Mission] \in Plan
  BY <1>2, <1>3, PlanTypes DEF Switching, InFlight, Plans
<1>6. /\ saved' \in Plans /\ \A u \in Types \ {Mission} : saved'[u] = saved[u]
      /\ done => saved'[Mission] = InFlight(i)
  BY <1>1, <1>2, <1>3, <1>5 DEF TypeOK, Plans
<1>7. NoFault' => NoFault /\ done
  <2>1. ~raced' => ~raced
    BY <1>1, <1>2, Histories
  <2>2. spent.faults \in Nat /\ (IF ok THEN spent'.faults = spent.faults ELSE spent'.faults = spent.faults + 1)
    BY <1>1, <1>2, Counts DEF TypeOK
  <2> QED
    BY <1>2, <2>1, <2>2 DEF NoFault
<1>8. NoFault' => static.plan[Mission] = InFlight(i)
  BY <1>5, <1>7 DEF IInv, Synchronous
<1>9. SameTransfer(mgr[i], mgr[i])
  BY DEF SameTransfer
<1> QED
  BY <1>1, <1>2, <1>4, <1>5, <1>6, <1>7, <1>8, <1>9, EndChange

LEMMA StatsWrittenIInv ==
    ASSUME IInv, NEW i \in Instances, NEW ok \in BOOLEAN, NEW done \in BOOLEAN, StatsWritten(i, ok, done)
    PROVE  IInv'
<1>1. TypeOK /\ mgr \in [Instances -> Manager] /\ static \in Statics
  BY Members DEF IInv
<1>2. call[i].op = "stats" /\ (ok => done) /\ Access(ok) /\ History /\ UNCHANGED store
  BY DEF StatsWritten
<1>3. PICK t \in ToSet(StatTypes), plan \in Plan : t = call[i].type /\ plan = call[i].plan
  BY <1>1, <1>2, CallFields DEF TypeOK
<1>4. t \in Types /\ t # Mission /\ Mission \in Types
  BY PlanTypes, MissionAssumption
<1>5. Switching(i, t) /\ InFlight(i) = plan
  BY <1>2, <1>3 DEF Switching, InFlight
<1>6. saved' = IF done THEN [saved EXCEPT ![t] = plan] ELSE saved
  BY <1>3 DEF StatsWritten
<1>7. /\ saved' \in Plans /\ \A u \in Types \ {t} : saved'[u] = saved[u]
      /\ done => saved'[t] = plan
  BY <1>1, <1>4, <1>6 DEF TypeOK, Plans
<1>8. NoFault' => NoFault /\ ok
  <2>1. ~raced' => ~raced
    BY <1>1, <1>2, Histories
  <2>2. spent.faults \in Nat /\ (IF ok THEN spent'.faults = spent.faults ELSE spent'.faults = spent.faults + 1)
    BY <1>1, <1>2, Counts DEF TypeOK
  <2> QED
    BY <2>1, <2>2 DEF NoFault
<1>9. CASE ok
  <2> DEFINE s == Counted(t, plan)
             m == [mgr EXCEPT ![i].my[Mission] = s.plan[Mission].id]
  <2>1. Publish(s.plan) /\ Finish(i, s, m, FALSE)
    BY <1>3, <1>9 DEF StatsWritten
  <2>2. /\ s \in Statics /\ s.busy = static.busy
        /\ \A u \in Types \ {t} : s.plan[u] = static.plan[u]
        /\ static.plan[t].id = plan.id => s.plan[t] = plan
    BY <1>1, <1>4, CountedEffect
  <2> HIDE DEF s
  <2>3. s.plan \in Plans /\ s.plan[Mission].id \in 0..1
    <3>1. s.plan \in Plans
      BY <2>2 DEF Statics
    <3>2. s.plan[Mission] \in Plan
      BY <3>1, <1>4 DEF Plans
    <3> QED
      BY <3>1, <3>2 DEF Plan
  <2>4. topic' \in Plans /\ fresh' \in [Instances -> BOOLEAN]
    BY <2>1, <2>3, PublishType
  <2>a. PICK a \in 0..1 : a = s.plan[Mission].id
    BY <2>3
  <2>b. m = [mgr EXCEPT ![i].my[Mission] = a]
    BY <2>a
  <2> HIDE DEF m
  <2>5. /\ m \in [Instances -> Manager] /\ SameTransfer(m[i], mgr[i])
        /\ \A j \in Instances \ {i} : m[j] = mgr[j]
    BY <1>1, <1>4, <2>b, MyType
  <2>6. NoFault' => saved'[t] = InFlight(i) /\ s.plan[t] = InFlight(i)
    <3>1. ASSUME NoFault' PROVE static.plan[t].id = plan.id
      <4>1. static.plan[t] = [saved[t] EXCEPT !.id = plan.id]
        BY <3>1, <1>4, <1>5, <1>8 DEF IInv, Synchronous
      <4>2. saved[t] \in Plan
        BY <1>1, <1>4 DEF TypeOK, Plans
      <4> QED
        BY <4>1, <4>2 DEF Plan
    <3> QED
      BY <3>1, <1>2, <1>5, <1>7, <1>9, <2>2
  <2> QED
    BY <1>1, <1>2, <1>4, <1>5, <1>7, <1>9, <2>1, <2>2, <2>4, <2>5, <2>6, EndChange
<1>10. CASE ~ok
  <2>1. Finish(i, static, mgr, TRUE) /\ UNCHANGED <<topic, fresh>>
    BY <1>10 DEF StatsWritten
  <2>2. topic' \in Plans /\ fresh' \in [Instances -> BOOLEAN]
    BY <1>1, <2>1 DEF TypeOK
  <2>3. ~NoFault'
    BY <1>8, <1>10
  <2>4. SameTransfer(mgr[i], mgr[i])
    BY DEF SameTransfer
  <2> QED
    BY <1>1, <1>2, <1>4, <1>5, <1>7, <2>1, <2>2, <2>3, <2>4, EndChange
<1> QED
  BY <1>9, <1>10

\* What check_active_mission does once the statistics are loaded, or need not be
LEMMA CheckStep ==
    ASSUME IInv, NEW i \in Instances, History, call[i].op \in {None, "check"},
           NEW s \in Statics, s.busy = static.busy, NoFault' => s.plan = static.plan,
           NEW m \in [Instances -> Manager], SameTransfer(m[i], mgr[i]),
           \A j \in Instances \ {i} : m[j] = mgr[j],
           NEW todo \in Todo, NEW of \in Plans, Check(i, s, m, todo, of),
           call[i].op = "check" \/ (fresh[i] /\ ~fresh'[i]), fresh' \in [Instances -> BOOLEAN],
           spent' \in Spent, spent'.faults >= spent.faults, spent'.restarts = spent.restarts,
           UNCHANGED <<store, saved, topic>>, NoReply
    PROVE  IInv'
<1>1. TypeOK
  BY DEF IInv
<1>2. /\ static' \in Statics /\ static'.busy = s.busy
      /\ \A t \in Types \ {Mission} : static'.plan[t] = s.plan[t]
      /\ mgr' \in [Instances -> Manager] /\ SameTransfer(mgr'[i], m[i])
      /\ \A j \in Instances \ {i} : mgr'[j] = m[j] /\ call'[j] = call[j]
      /\ call' \in [Instances -> Calls] /\ call'[i].op \in {None, "check"}
      /\ call'[i].op = "check" => call'[i].todo # <<>>
  BY <1>1, CheckEffect
<1>3. SameTransfer(mgr'[i], mgr[i]) /\ Others(i)
  BY <1>2 DEF SameTransfer, Others
<1>4. ~Changing(i) /\ ~Changing(i)'
  BY <1>2 DEF Changing, None
<1>5. ControlOf(i)'
  BY <1>2, <1>4 DEF ControlOf, None
<1>6. UploadOf(i)'
  <2>1. UploadOf(i)
    BY DEF IInv, Uploads
  <2> QED
    BY <2>1, <1>2, <1>3, <1>4 DEF UploadOf, SameTransfer, None
<1>7. ~raced' => ~raced /\ ~Race
  BY <1>1, Histories
<1>8. ~raced' => WrittenOf(i)'
  <2>1. ~raced' => WrittenOf(i)
    BY <1>7 DEF IInv, Written
  <2> QED
    BY <2>1, <1>3 DEF WrittenOf, SameTransfer
<1>9. (NoFault' => NoFault) /\ (Flown' => Flown)
  BY <1>1, <1>7, Monotone
<1>10. TypeOK'
  BY <1>1, <1>2, TypeNext DEF TypeOK, NoReply
<1>11. ~raced' => static'.plan[Mission] = static.plan[Mission]
  BY <1>7 DEF Race
<1>12. NoFault' => static'.plan = static.plan
  <2> SUFFICES ASSUME NoFault' PROVE static'.plan = static.plan
    OBVIOUS
  <2>1. \A t \in Types : static'.plan[t] = static.plan[t]
    BY <1>2, <1>11 DEF NoFault
  <2>2. static'.plan \in [Types -> Plan] /\ static.plan \in [Types -> Plan]
    BY <1>1, <1>2 DEF TypeOK, Statics, Plans
  <2> QED
    BY <2>1, <2>2
<1>13. static'.busy => /\ static.busy
                       /\ mgr[i].state = "GETLIST" => mgr'[i].state = "GETLIST"
  BY <1>2, <1>3 DEF SameTransfer
<1>14. mgr'[i].state = "GETLIST" =>
         mgr[i].state = "GETLIST" /\ mgr'[i].type = mgr[i].type /\ mgr'[i].id = mgr[i].id
  BY <1>3 DEF SameTransfer
<1>15. StoreKeeps(i) /\ saved' = saved
  BY <1>3, StoreKept
<1> QED
  BY <1>3, <1>4, <1>5, <1>6, <1>7, <1>8, <1>9, <1>10, <1>11, <1>12, <1>13, <1>14, <1>15, CalmStep

LEMMA CheckActiveIInv ==
    ASSUME IInv, NEW i \in Instances, CheckActive(i)
    PROVE  IInv'
<1>1. TypeOK /\ mgr \in [Instances -> Manager] /\ static \in Statics
  BY Members DEF IInv
<1>2. /\ call[i].op = None /\ fresh[i] /\ fresh' = [fresh EXCEPT ![i] = FALSE]
      /\ Check(i, static, mgr, StatTypes, topic) /\ NoReply /\ History
      /\ UNCHANGED <<store, saved, topic, spent>>
  BY DEF CheckActive, Ready
<1>3. fresh' \in [Instances -> BOOLEAN] /\ ~fresh'[i]
  BY <1>1, <1>2 DEF TypeOK
<1>4. StatTypes \in Todo /\ topic \in Plans
  BY <1>1, MissionAssumption DEF Todo, TypeOK
<1>5. spent' \in Spent /\ spent'.faults >= spent.faults /\ spent'.restarts = spent.restarts
  BY <1>1, <1>2 DEF TypeOK, Spent
<1>6. SameTransfer(mgr[i], mgr[i])
  BY DEF SameTransfer
<1> QED
  BY <1>1, <1>2, <1>3, <1>4, <1>5, <1>6, CheckStep

LEMMA CheckLoadedIInv ==
    ASSUME IInv, NEW i \in Instances, NEW ok \in BOOLEAN, CheckLoaded(i, ok)
    PROVE  IInv'
<1>1. TypeOK /\ mgr \in [Instances -> Manager] /\ static \in Statics /\ ControlOf(i)
  BY Members DEF IInv, Control
<1>2. /\ call[i].op = "check" /\ Access(ok) /\ NoReply /\ History
      /\ UNCHANGED <<store, saved, topic, fresh>>
  BY DEF CheckLoaded
<1>3. PICK todo \in Todo, of \in Plans : todo = call[i].todo /\ of = call[i].of
  BY <1>1, <1>2, CallFields DEF TypeOK
<1>4. todo # <<>>
  BY <1>1, <1>2, <1>3 DEF ControlOf
<1>5. PICK t \in ToSet(StatTypes), rest \in Todo : t = Head(todo) /\ rest = Tail(todo)
  <2>1. Head(todo) \in ToSet(StatTypes) /\ Tail(todo) \in Todo
    BY <1>4 DEF Todo
  <2> QED
    BY <2>1
<1>6. t \in Types /\ t # Mission
  BY PlanTypes, MissionAssumption
<1>7. Check(i, Load(t, ok), Loaded(i, t, ok), rest, of)
  BY <1>3, <1>5 DEF CheckLoaded
<1> DEFINE s == Load(t, ok)
           m == Loaded(i, t, ok)
<1>8. /\ s \in Statics /\ s.busy = static.busy /\ m \in [Instances -> Manager]
      /\ SameTransfer(m[i], mgr[i]) /\ \A j \in Instances \ {i} : m[j] = mgr[j]
  BY <1>1, <1>6, LoadEffect
<1>9. Loading(i, t) /\ ~Changing(i)
  BY <1>2, <1>3, <1>5 DEF Loading, Changing
<1>10. ~raced' => ~raced /\ ~Race
  BY <1>1, <1>2, Histories
<1>11. NoFault' => s.plan = static.plan
  BY <1>2, <1>6, <1>9, <1>10, LoadKeeps
<1>12. spent' \in Spent /\ spent'.faults >= spent.faults /\ spent'.restarts = spent.restarts
  BY <1>1, <1>2, Counts DEF TypeOK
<1>13. fresh' \in [Instances -> BOOLEAN]
  BY <1>1, <1>2 DEF TypeOK
<1>14. Check(i, s, m, rest, of)
  BY <1>7
<1> HIDE DEF s, m
<1> QED
  BY <1>2, <1>8, <1>11, <1>12, <1>13, <1>14, CheckStep

Area == [Types -> [0..1 -> [0..MaxItems - 1 -> Items \cup {None}]]]

\* The store r is s with the item x at one place.
OneCell(r, s, t, a, n, x) ==
    /\ r \in Area /\ r[t][a][n] = x
    /\ \A u \in Types, b \in 0..1, k \in 0..MaxItems - 1 :
         u # t \/ b # a \/ k # n => r[u][b][k] = s[u][b][k]

LEMMA AreaWrite ==
    ASSUME NEW s \in Area, NEW t \in Types, NEW a \in 0..1, NEW n \in 0..MaxItems - 1, NEW x \in Items,
           NEW r, r = [s EXCEPT ![t][a][n] = x]
    PROVE  OneCell(r, s, t, a, n, x)
<1> DEFINE Row == [0..MaxItems - 1 -> Items \cup {None}]
           row == [s[t][a] EXCEPT ![n] = x]
           both == [s[t] EXCEPT ![a] = row]
<1>1. r = [s EXCEPT ![t] = both]
  BY Zenon
<1>2. s \in [Types -> [0..1 -> Row]]
  BY DEF Area
<1>3. s[t] \in [0..1 -> Row] /\ s[t][a] \in Row
  BY <1>2
<1>4. row \in Row /\ row[n] = x /\ \A k \in 0..MaxItems - 1 : k # n => row[k] = s[t][a][k]
  BY <1>3
<1> HIDE DEF row, Row
<1>5. both \in [0..1 -> Row] /\ both[a] = row /\ \A b \in 0..1 : b # a => both[b] = s[t][b]
  BY <1>3, <1>4
<1> HIDE DEF both
<1>6. /\ r \in [Types -> [0..1 -> Row]] /\ r[t] = both
      /\ \A u \in Types : u # t => r[u] = s[u]
  BY <1>1, <1>2, <1>5
<1>7. r \in Area
  BY <1>6 DEF Area, Row
<1>8. r[t][a] = row /\ \A b \in 0..1 : b # a => r[t][b] = s[t][b]
  BY <1>5, <1>6
<1>9. ASSUME NEW u \in Types, NEW b \in 0..1, NEW k \in 0..MaxItems - 1, u # t \/ b # a \/ k # n
      PROVE  r[u][b][k] = s[u][b][k]
  <2>1. CASE u # t
    BY <1>6, <2>1
  <2>2. CASE u = t /\ b # a
    BY <1>8, <2>2
  <2>3. CASE u = t /\ b = a /\ k # n
    BY <1>4, <1>8, <2>3
  <2> QED
    BY <1>9, <2>1, <2>2, <2>3
<1> QED
  BY <1>4, <1>7, <1>8, <1>9 DEF OneCell

\* The write of an item
LEMMA ItemStored ==
    ASSUME IInv, NEW i \in Instances, mgr[i].state = "GETLIST", call[i].op = "item", Others(i),
           History, NEW done \in BOOLEAN,
           store' = IF done THEN [store EXCEPT ![mgr[i].type][mgr[i].id][mgr[i].seq] = call[i].item]
                    ELSE store
    PROVE  /\ store' \in Area /\ StoreKeeps(i)
           /\ done /\ ~raced' =>
                \A k \in 1..mgr[i].seq + 1 : store'[mgr[i].type][mgr[i].id][k - 1] = mgr[i].crc[k]
           /\ mgr[i].seq + 1 \in 0..MaxItems /\ mgr[i].seq + 1 <= mgr[i].count
           /\ Len(mgr[i].crc) = mgr[i].seq + 1
<1>1. TypeOK /\ mgr[i] \in Manager /\ UploadOf(i) /\ Alone /\ ~Changing(i)
  BY Members DEF IInv, Uploads, Changing
<1>2. PICK t \in Types, a \in 0..1, n \in 0..MaxItems, x \in Items :
        t = mgr[i].type /\ a = mgr[i].id /\ n = mgr[i].seq /\ x = call[i].item
  BY <1>1, CallFields DEF TypeOK, Manager
<1>3. mgr[i].count \in 0..MaxItems /\ mgr[i].crc \in Seq(Items) /\ MaxItems \in Nat
  BY <1>1, PlanTypes DEF Manager
<1>4. n < mgr[i].count /\ Len(mgr[i].crc) = n + 1 /\ mgr[i].crc[n + 1] = x
  BY <1>1, <1>2, <1>3 DEF UploadOf
<1>5. n \in 0..MaxItems - 1 /\ n + 1 \in 0..MaxItems /\ n + 1 <= mgr[i].count
  BY <1>3, <1>4
<1>6. store \in Area
  BY <1>1 DEF TypeOK, Area
<1>7. /\ store' \in Area
      /\ done => store'[t][a][n] = x
      /\ \A u \in Types, b \in 0..1, k \in 0..MaxItems - 1 :
           u # t \/ b # a \/ k # n => store'[u][b][k] = store[u][b][k]
  <2>1. CASE done
    <3>1. store' = [store EXCEPT ![t][a][n] = x]
      BY <1>2, <2>1
    <3>2. PICK r : r = store'
      OBVIOUS
    <3>3. PICK old \in Area : old = store
      BY <1>6
    <3>4. r = [old EXCEPT ![t][a][n] = x]
      BY <3>1, <3>2, <3>3
    <3>5. OneCell(r, old, t, a, n, x)
      BY <1>2, <1>5, <3>3, <3>4, AreaWrite
    <3>6. OneCell(store', store, t, a, n, x)
      BY <3>2, <3>3, <3>5
    <3> QED
      BY <3>6 DEF OneCell
  <2>2. CASE ~done
    BY <1>6, <2>2
  <2> QED
    BY <2>1, <2>2
<1>8. ~raced' => ~raced
  BY <1>1, Histories
<1>9. Receiving(i, t) /\ Writing(i, t)
  BY <1>1, <1>2 DEF Writing, Receiving
<1>10. ASSUME NEW u \in Types, NEW plan \in Plan, Holds(store, u, plan),
              \A k \in Instances : Writing(k, u) => Apart(k, plan)
       PROVE  Holds(store', u, plan)
  <2>1. plan.id \in 0..1 /\ plan.count \in 0..MaxItems /\ plan.crc \in Seq(Items)
    BY DEF Plan
  <2>2. plan.count = Len(plan.crc) /\ \A k \in 1..Len(plan.crc) : store[u][plan.id][k - 1] = plan.crc[k]
    BY <1>10 DEF Holds
  <2>3. ASSUME NEW k \in 1..Len(plan.crc) PROVE store'[u][plan.id][k - 1] = plan.crc[k]
    <3>1. PICK m \in 0..MaxItems - 1 : m = k - 1
      BY <1>3, <2>1, <2>2
    <3>2. plan.crc # <<>>
      BY <2>1
    <3>3. u = t => plan.id # a
      BY <1>2, <1>9, <1>10, <3>2 DEF Apart
    <3>4. store'[u][plan.id][m] = store[u][plan.id][m]
      BY Zenon, <1>7, <2>1, <3>3
    <3> QED
      BY Zenon, <2>2, <3>1, <3>4
  <2> QED
    BY <2>2, <2>3 DEF Holds
<1>11. ASSUME ~raced', NEW j \in Instances \ {i}, WrittenOf(j) PROVE WrittenOf(j)'
  <2>1. mgr'[j] = mgr[j] /\ mgr[j] \in Manager
    BY <1>1, Members DEF Others
  <2>2. SUFFICES ASSUME mgr[j].state = "GETLIST", NEW k \in 1..mgr[j].seq
                 PROVE  store'[mgr[j].type][mgr[j].id][k - 1] = mgr[j].crc[k]
    BY <2>1 DEF WrittenOf
  <2>3. PICK u \in Types, b \in 0..1 : u = mgr[j].type /\ b = mgr[j].id
    BY <2>1 DEF Manager
  <2>4. u # t
    BY <1>1, <1>8, <1>9, <1>11, <2>2, <2>3 DEF Alone, Receiving
  <2>5. store[u][b][k - 1] = mgr[j].crc[k]
    BY <1>11, <2>2, <2>3 DEF WrittenOf
  <2>6. PICK n1 \in 0..MaxItems - 1 : n1 = k - 1
    BY <1>3, <2>1 DEF Manager
  <2>7. store'[u][b][n1] = store[u][b][n1]
    BY Zenon, <1>7, <2>4
  <2> QED
    BY Zenon, <2>3, <2>5, <2>6, <2>7
<1>12. ASSUME done, ~raced', NEW k \in 1..n + 1
       PROVE  store'[t][a][k - 1] = mgr[i].crc[k]
  <2>1. k - 1 \in 0..MaxItems - 1
    BY <1>3, <1>5
  <2>2. CASE k = n + 1
    <3>1. k - 1 = n
      BY <1>5, <2>2
    <3> QED
      BY Zenon, <1>4, <1>7, <1>12, <2>2, <3>1
  <2>3. CASE k # n + 1
    <3>1. k \in 1..n /\ k - 1 # n
      BY <1>5, <2>3
    <3>2. WrittenOf(i)
      BY <1>8, <1>12 DEF IInv, Written
    <3>3. store[t][a][k - 1] = mgr[i].crc[k]
      BY <1>2, <3>1, <3>2 DEF WrittenOf
    <3> QED
      BY Zenon, <1>7, <2>1, <3>1, <3>3
  <2> QED
    BY <2>2, <2>3
<1>13. StoreKeeps(i)
  BY <1>10, <1>11 DEF StoreKeeps
<1> QED
  BY <1>2, <1>4, <1>5, <1>7, <1>12, <1>13

LEMMA NextSeqType ==
    ASSUME NEW f \in [Instances -> Manager], NEW i \in Instances, f[i].seq + 1 \in 0..MaxItems,
           NEW m, m = [f EXCEPT ![i].seq = @ + 1]
    PROVE  /\ m \in [Instances -> Manager] /\ m[i].seq = f[i].seq + 1
           /\ m[i].state = f[i].state /\ m[i].type = f[i].type /\ m[i].count = f[i].count
           /\ m[i].id = f[i].id /\ m[i].crc = f[i].crc
           /\ \A j \in Instances \ {i} : m[j] = f[j]
<1> DEFINE k == f[i].seq + 1
<1>1. m = [f EXCEPT ![i].seq = k]
  OBVIOUS
<1> HIDE DEF k
<1>2. k \in 0..MaxItems
  BY DEF k
<1>3. m \in [Instances -> Manager]
  BY ZenonT(40), <1>1, <1>2 DEF Manager
<1>4. /\ m[i].seq = k
      /\ m[i].state = f[i].state /\ m[i].type = f[i].type /\ m[i].count = f[i].count
      /\ m[i].id = f[i].id /\ m[i].crc = f[i].crc
      /\ \A j \in Instances \ {i} : m[j] = f[j]
  BY <1>1 DEF Manager
<1> QED
  BY <1>3, <1>4 DEF k

LEMMA ItemWrittenIInv ==
    ASSUME IInv, NEW i \in Instances, NEW ok \in BOOLEAN, NEW done \in BOOLEAN, ItemWritten(i, ok, done)
    PROVE  IInv'
<1> DEFINE m == [mgr EXCEPT ![i].seq = @ + 1]
           t == mgr[i].type
           plan == [id |-> mgr[i].id, count |-> mgr[i].count, crc |-> mgr[i].crc]
<1>1. /\ TypeOK /\ mgr \in [Instances -> Manager] /\ static \in Statics /\ mgr[i] \in Manager
      /\ ControlOf(i)
  BY Members DEF IInv, Control
<1>2. /\ call[i].op = "item" /\ (ok => done) /\ History
      /\ UNCHANGED <<saved, topic, fresh, spent>>
      /\ store' = IF done THEN [store EXCEPT ![mgr[i].type][mgr[i].id][mgr[i].seq] = call[i].item]
                  ELSE store
  BY DEF ItemWritten
<1>3. /\ mgr[i].state = "GETLIST" /\ ~Changing(i)
      /\ t \in Types /\ plan \in Plan
  BY <1>1, <1>2 DEF ControlOf, Changing, Manager, Plan
<1>4. ~raced' => ~raced /\ ~Race
  BY <1>1, <1>2, Histories
<1>5. (NoFault' => NoFault) /\ (Flown' => Flown) /\ spent' \in Spent
  BY <1>1, <1>2, <1>4 DEF NoFault, Flown, TypeOK, Spent
<1>6. Others(i) => 
        /\ store' \in Area /\ StoreKeeps(i)
        /\ done /\ ~raced' =>
             \A k \in 1..mgr[i].seq + 1 : store'[mgr[i].type][mgr[i].id][k - 1] = mgr[i].crc[k]
        /\ mgr[i].seq + 1 \in 0..MaxItems /\ mgr[i].seq + 1 <= mgr[i].count
        /\ Len(mgr[i].crc) = mgr[i].seq + 1
  <2> HIDE DEF m, plan
  <2> QED
    BY <1>2, <1>3, ItemStored
<1>7. mgr[i].seq + 1 \in 0..MaxItems
  <2>1. UploadOf(i) /\ mgr[i].seq \in Nat /\ mgr[i].count \in 0..MaxItems /\ MaxItems \in Nat
    BY <1>1, PlanTypes DEF IInv, Uploads, Manager
  <2> QED
    BY <1>3, <2>1 DEF UploadOf
<1>8. /\ m \in [Instances -> Manager] /\ m[i].seq = mgr[i].seq + 1
      /\ m[i].state = mgr[i].state /\ m[i].type = t /\ m[i].count = mgr[i].count
      /\ m[i].id = mgr[i].id /\ m[i].crc = mgr[i].crc
      /\ \A j \in Instances \ {i} : m[j] = mgr[j]
  <2> DEFINE n == m
  <2>1. n = [mgr EXCEPT ![i].seq = @ + 1]
    OBVIOUS
  <2> HIDE DEF n
  <2>2. /\ n \in [Instances -> Manager] /\ n[i].seq = mgr[i].seq + 1
        /\ n[i].state = mgr[i].state /\ n[i].type = mgr[i].type /\ n[i].count = mgr[i].count
        /\ n[i].id = mgr[i].id /\ n[i].crc = mgr[i].crc
        /\ \A j \in Instances \ {i} : n[j] = mgr[j]
    BY <1>1, <1>7, <2>1, NextSeqType
  <2> QED
    BY <2>2 DEF n
<1>9. \/ ~ok /\ Abort(i) /\ Return(i)
      \/ ok /\ ~Complete(m[i]) /\ mgr' = m /\ NoReply /\ Return(i) /\ static' = static
      \/ ok /\ Complete(m[i]) /\ NoReply /\ Begin(i, m, t, plan, static.busy, Then("upload", <<>>))
      \/ ok /\ mgr' = SwitchToIdle(m, i) /\ static' = Released(static) /\ accepted' = {i} /\ Return(i)
  BY DEF ItemWritten
<1> HIDE DEF m
<1>10. /\ Released(static) \in Statics /\ Released(static).plan = static.plan
       /\ Released(static).busy = FALSE
  BY <1>1 DEF Released, Statics
\* The upload is over without a change of the plan.
<1>11. ASSUME NEW f \in [Instances -> Manager], \A j \in Instances \ {i} : f[j] = mgr[j],
              mgr' = SwitchToIdle(f, i), static' = Released(static), Return(i),
              accepted' \subseteq Instances
       PROVE  IInv'
  <2>1. /\ mgr' \in [Instances -> Manager] /\ mgr'[i].state = "IDLE"
        /\ \A j \in Instances \ {i} : mgr'[j] = mgr[j]
    BY <1>11, IdleType
  <2>2. /\ call' \in [Instances -> Calls] /\ call'[i].op = None
        /\ \A j \in Instances \ {i} : call'[j] = call[j]
    BY <1>1, <1>11, ReturnEffect
  <2>3. ControlOf(i)' /\ UploadOf(i)' /\ WrittenOf(i)' /\ ~Changing(i)'
    BY <2>1, <2>2, Resting
  <2>4. Others(i)
    BY <2>1, <2>2 DEF Others
  <2>5. store' \in Area /\ StoreKeeps(i)
    BY <1>6, <2>4
  <2>6. static' \in Statics /\ static'.plan = static.plan /\ ~static'.busy
    BY <1>10, <1>11
  <2>7. TypeOK'
    BY <1>1, <1>2, <1>5, <1>11, <2>1, <2>2, <2>5, <2>6, TypeNext DEF TypeOK, Area
  <2> HIDE DEF plan
  <2> QED
    BY <1>2, <1>3, <1>4, <1>5, <2>1, <2>3, <2>4, <2>5, <2>6, <2>7, CalmStep
<1>12. CASE ~ok /\ Abort(i) /\ Return(i)
  <2>1. mgr' = SwitchToIdle(mgr, i) /\ static' = Released(static) /\ accepted' = {}
    BY <1>12 DEF Abort, NoReply
  <2> QED
    BY <1>1, <1>11, <1>12, <2>1
<1>13. CASE ok /\ mgr' = SwitchToIdle(m, i) /\ static' = Released(static) /\ accepted' = {i} /\ Return(i)
  BY <1>8, <1>11, <1>13
<1>14. CASE ok /\ ~Complete(m[i]) /\ mgr' = m /\ NoReply /\ Return(i) /\ static' = static
  <2>1. /\ call' \in [Instances -> Calls] /\ call'[i].op = None
        /\ \A j \in Instances \ {i} : call'[j] = call[j]
    BY <1>1, <1>14, ReturnEffect
  <2>2. Others(i) /\ ~Changing(i)'
    BY <1>8, <1>14, <2>1 DEF Others, Changing, None
  <2>3. /\ store' \in Area /\ StoreKeeps(i) /\ Len(mgr[i].crc) = mgr[i].seq + 1
        /\ mgr[i].seq + 1 <= mgr[i].count
        /\ ~raced' => \A k \in 1..mgr[i].seq + 1 :
                        store'[mgr[i].type][mgr[i].id][k - 1] = mgr[i].crc[k]
    BY <1>2, <1>6, <1>14, <2>2
  <2>4. mgr[i].seq + 1 < mgr[i].count
    <3>1. mgr[i].seq + 1 # mgr[i].count
      BY <1>8, <1>14 DEF Complete
    <3>2. mgr[i].seq \in Nat /\ mgr[i].count \in Nat
      BY <1>1, PlanTypes DEF Manager
    <3> QED
      BY <2>3, <3>1, <3>2
  <2>5. ControlOf(i)'
    BY <2>1, <2>2 DEF ControlOf, None
  <2>6. UploadOf(i)'
    BY <1>8, <1>14, <2>1, <2>2, <2>3, <2>4 DEF UploadOf, None
  <2>7. ~raced' => WrittenOf(i)'
    BY <1>8, <1>14, <2>3 DEF WrittenOf
  <2>8. TypeOK'
    BY <1>1, <1>2, <1>5, <1>8, <1>14, <2>1, <2>3, TypeNext DEF TypeOK, Area, NoReply
  <2>9. /\ mgr'[i].state = "GETLIST" /\ mgr'[i].type = mgr[i].type /\ mgr'[i].id = mgr[i].id
        /\ static' = static /\ saved' = saved
    BY <1>2, <1>3, <1>8, <1>14
  <2> HIDE DEF plan
  <2> QED
    BY <1>3, <1>4, <1>5, <2>2, <2>3, <2>5, <2>6, <2>7, <2>8, <2>9, CalmStep
<1>15. CASE ok /\ Complete(m[i]) /\ NoReply /\ Begin(i, m, t, plan, static.busy, Then("upload", <<>>))
  <2>0. PICK u \in Types, p \in Plan, busy \in BOOLEAN : u = t /\ p = plan /\ busy = static.busy
    BY <1>1, <1>3 DEF Statics
  <2>1. <<>> \in Todo /\ Begin(i, m, u, p, busy, Then("upload", <<>>))
    BY <1>15, <2>0 DEF Todo
  <2>2. /\ static' \in Statics /\ static'.busy = busy
        /\ static'.plan = Switched(u, p)
        /\ mgr' \in [Instances -> Manager] /\ SameTransfer(mgr'[i], m[i])
        /\ \A j \in Instances \ {i} : mgr'[j] = m[j] /\ call'[j] = call[j]
        /\ call' \in [Instances -> Calls] /\ Changing(i)' /\ call'[i].then.what = "upload"
        /\ \A v \in Types : Switching(i, v)' <=> v = u
        /\ InFlight(i)' = p
    BY <1>1, <1>8, <2>1, BeginEffect
  <2>3. Others(i)
    BY <1>8, <2>2 DEF Others
  <2>4. /\ store' \in Area /\ StoreKeeps(i) /\ Len(mgr[i].crc) = mgr[i].seq + 1
        /\ ~raced' => \A k \in 1..mgr[i].seq + 1 :
                        store'[mgr[i].type][mgr[i].id][k - 1] = mgr[i].crc[k]
    BY <1>2, <1>6, <1>15, <2>3
  <2>5. /\ mgr'[i].state = "GETLIST" /\ mgr'[i].type = u /\ mgr'[i].seq = mgr[i].seq + 1
        /\ mgr'[i].count = mgr[i].count /\ mgr'[i].id = mgr[i].id /\ mgr'[i].crc = mgr[i].crc
    BY <1>3, <1>8, <2>0, <2>2 DEF SameTransfer
  <2>6. mgr[i].seq + 1 = mgr[i].count
    BY <1>8, <1>15 DEF Complete
  <2>7. p.id = mgr[i].id /\ p.count = mgr[i].count /\ p.crc = mgr[i].crc /\ Upload(i)' = p
    BY <2>0, <2>5 DEF Upload
  <2>8. ControlOf(i)'
    BY <2>2, <2>5, <2>7 DEF ControlOf, Changing
  <2>9. UploadOf(i)'
    BY <2>2, <2>4, <2>5, <2>6 DEF UploadOf, Changing
  <2>10. ~raced' => WrittenOf(i)'
    BY <2>0, <2>4, <2>5 DEF WrittenOf
  <2>11. ~raced' => Holds(store', u, p)
    BY <2>0, <2>4, <2>6, <2>7 DEF Holds
  <2>12. Receiving(i, u)' /\ Holder(i)'
    BY <2>5 DEF Receiving, Holder
  <2>13. TypeOK'
    BY <1>1, <1>2, <1>5, <1>15, <2>2, <2>4, TypeNext DEF TypeOK, Area, NoReply
  <2> HIDE DEF plan
  <2> QED
    BY <1>2, <1>3, <1>4, <1>5, <2>2, <2>3, <2>4, <2>8, <2>9, <2>10, <2>11, <2>12, <2>13, BeginStep
<1> QED
  BY <1>9, <1>12, <1>13, <1>14, <1>15
-----------------------------------------------------------------------------
LEMMA NextIInv == IInv /\ [Next]_vars => IInv'
<1> SUFFICES ASSUME IInv, [Next]_vars PROVE IInv'
  OBVIOUS
<1>1. CASE UNCHANGED vars
  <2>1. /\ UNCHANGED <<static, mgr, call, store, saved, topic>>
        /\ UNCHANGED <<fresh, accepted, changed, raced, spent>>
    BY <1>1 DEF vars
  <2>2. TypeOK' /\ FlagHeld'
    BY <2>1 DEF IInv, TypeOK, FlagHeld
  <2>3. Control' /\ Uploads'
    BY <2>1 DEF IInv, Control, Uploads, ControlOf, UploadOf, Changing, Switching, InFlight, Upload
  <2>4. Alone' /\ Written'
    BY <2>1 DEF IInv, Alone, Written, WrittenOf, Receiving, Switching
  <2>5. SavedWhole'
    BY SMTT(20), <2>1 DEF IInv, SavedWhole, NoFault, Holds, Switching, Writing, Receiving, Changing, Apart, InFlight
  <2>6. Synchronous'
    BY <2>1 DEF IInv, Synchronous, NoFault, Switching, InFlight
  <2>7. FlownWhole'
    BY <2>1 DEF IInv, FlownWhole, Flown, Holds, Switching, Writing, Receiving, Changing, Apart, InFlight
  <2> QED
    BY <2>2, <2>3, <2>4, <2>5, <2>6, <2>7 DEF IInv
<1>2. ASSUME NEW i \in Instances, Receive(i) PROVE IInv'
  BY <1>2, HandleCountIInv, HandleItemIInv, HandleRequestListIInv, HandleRequestIInv, HandleAckIInv,
     HandleClearIInv, HandleClearAllIInv, HandleSetCurrentIInv DEF Receive
<1>3. ASSUME NEW i \in Instances, Resume(i) PROVE IInv'
  BY <1>3, ClaimIInv, ClearNextIInv, ItemReadIInv, ListLoadedIInv, CheckLoadedIInv, StateWrittenIInv,
     StatsWrittenIInv, ItemWrittenIInv DEF Resume
<1>4. ASSUME NEW i \in Instances, Wait(i) PROVE IInv'
  BY <1>4, TimeoutIInv, RepeatCountIInv, CheckActiveIInv DEF Wait
<1>5. ASSUME NEW readable \in SUBSET Types, Restart(readable) PROVE IInv'
  BY <1>5, RestartIInv
<1> QED
  BY <1>1, <1>2, <1>3, <1>4, <1>5 DEF Next

\* The inductive invariant holds in every state that the instances can reach.
THEOREM Invariance == Spec => []IInv
BY InitIInv, NextIInv, PTL DEF Spec

\* The types of the variables, for any number of instances, kinds of plans and items.
THEOREM TypeCorrect == Spec => []TypeOK
<1>1. IInv => TypeOK
  BY DEF IInv
<1> QED
  BY <1>1, Invariance, PTL

\* _transfer_in_progress is held by someone whenever it is set (handle_mission_count and
\* the places that clear it): no error path, timeout or failed write leaves it behind.
THEOREM FlagCorrect == Spec => []FlagHeld
<1>1. IInv => FlagHeld
  BY DEF IInv
<1> QED
  BY <1>1, Invariance, PTL

\* Unless the instances race or an access fails, the saved state of every type points to
\* an area with the whole plan at every moment, losses of power included.
THEOREM SavedPlanWhole == Spec => []SavedIntact
<1>1. IInv => SavedIntact
  BY DEF IInv, SavedWhole, SavedIntact, Holds, HasAll
<1> QED
  BY <1>1, Invariance, PTL

\* ... and so does the plan of the mission in memory, even if writes of the state fail.
THEOREM FlownPlanWhole == Spec => []MissionIntact
<1>1. IInv => MissionIntact
  BY DEF IInv, FlownWhole, Flown, MissionIntact, Holds, HasAll
<1> QED
  BY <1>1, Invariance, PTL

\* When nothing is under way, what the instances work with is what is saved.
THEOREM PlansAgree == Spec => []Agree
<1>1. IInv => Agree
  <2> SUFFICES ASSUME IInv, NoFault, Quiet PROVE static.plan = saved
    BY DEF Agree
  <2>1. \A i \in Instances, t \in Types : ~Switching(i, t)
    BY DEF Quiet, Ready, Switching, None
  <2>2. \A t \in Types : static.plan[t] = saved[t]
    BY <2>1 DEF IInv, Synchronous
  <2>3. static.plan \in [Types -> Plan] /\ saved \in [Types -> Plan]
    BY DEF IInv, TypeOK, Plans
  <2> QED
    BY <2>2, <2>3
<1> QED
  BY <1>1, Invariance, PTL

\* What is answered with ACCEPTED
LEMMA AcceptedNext ==
    ASSUME IInv, Next, NEW i \in Instances, i \in accepted', ~raced, spent'.faults = 0
    PROVE  saved'[mgr[i].type].crc = mgr[i].crc
<1>0. TypeOK /\ mgr \in [Instances -> Manager] /\ static \in Statics /\ saved \in [Types -> Plan]
  BY Members DEF IInv, TypeOK, Plans
<1>1. accepted' # {}
  OBVIOUS
<1>2. ASSUME NEW k \in Instances, Receive(k) PROVE FALSE
  BY <1>1, <1>2 DEF Receive, HandleCount, HandleItem, HandleRequestList, HandleRequest, HandleAck,
     HandleClear, HandleClearAll, HandleSetCurrent, Abort, NoReply
<1>3. ASSUME NEW k \in Instances, Wait(k) PROVE FALSE
  BY <1>1, <1>3 DEF Wait, Timeout, RepeatCount, CheckActive, NoReply
<1>4. ASSUME NEW readable \in SUBSET Types, Restart(readable) PROVE FALSE
  BY <1>1, <1>4 DEF Restart, NoReply
<1>5. PICK k \in Instances, ok \in BOOLEAN, done \in BOOLEAN :
        StateWritten(k, ok, done) \/ StatsWritten(k, ok, done) \/ ItemWritten(k, ok, done)
  <2>1. PICK k \in Instances : Resume(k)
    BY <1>2, <1>3, <1>4 DEF Next
  <2>2. ~Claim(k) /\ ~ClearNext(k) /\ ~ItemRead(k) /\ \A ok \in BOOLEAN : ~ListLoaded(k, ok) /\ ~CheckLoaded(k, ok)
    BY <1>1 DEF Claim, ClearNext, ItemRead, ListLoaded, CheckLoaded, NoReply
  <2> QED
    BY <2>1, <2>2 DEF Resume
\* An upload that became the active plan
<1>6. ASSUME NEW t \in Types, Switching(k, t), accepted' = {k}, call[k].then.what = "upload",
             saved'[t] = InFlight(k)
      PROVE  saved'[mgr[i].type].crc = mgr[i].crc
  <2>1. ControlOf(k) /\ Changing(k)
    BY <1>0, <1>6, OneType DEF IInv, Control
  <2>2. Switching(k, mgr[k].type) /\ InFlight(k) = Upload(k) /\ mgr[k].type \in Types
    BY <1>0, <1>6, <2>1 DEF ControlOf, Manager
  <2>3. mgr[k].type = t /\ i = k
    BY <1>0, <1>6, <2>2, OneType
  <2> QED
    BY <1>6, <2>2, <2>3 DEF Upload
<1>a. ASSUME Access(ok), ok => done PROVE done
  <2>1. spent.faults \in Nat /\ (IF ok THEN spent'.faults = spent.faults ELSE spent'.faults = spent.faults + 1)
    BY <1>0, <1>a, Counts DEF TypeOK
  <2> QED
    BY <1>a, <2>1
<1>7. CASE StateWritten(k, ok, done)
  <2>1. /\ call[k].op = "state" /\ Finish(k, static, mgr, FALSE)
        /\ saved' = IF done THEN [saved EXCEPT ![Mission] = call[k].pub[Mission]] ELSE saved
        /\ Access(ok) /\ (ok => done)
    BY <1>7 DEF StateWritten
  <2>2. Switching(k, Mission) /\ Changing(k) /\ InFlight(k) = call[k].pub[Mission]
    BY <2>1 DEF Switching, Changing, InFlight
  <2>3. accepted' \in {{}, {k}} /\ (accepted' = {k} => call[k].then.what = "upload")
    BY <1>0, <2>1, <2>2, FinishEffect
  <2>4. saved'[Mission] = InFlight(k)
    BY <1>0, <1>a, <2>1, <2>2, PlanTypes
  <2> QED
    BY <1>1, <1>6, <2>2, <2>3, <2>4, PlanTypes
<1>8. CASE StatsWritten(k, ok, done)
  <2>1. /\ call[k].op = "stats" /\ Access(ok) /\ (ok => done)
        /\ saved' = IF done THEN [saved EXCEPT ![call[k].type] = call[k].plan] ELSE saved
    BY <1>8 DEF StatsWritten
  <2>2. PICK t \in ToSet(StatTypes), plan \in Plan : t = call[k].type /\ plan = call[k].plan
    BY <1>0, <2>1, CallFields DEF TypeOK
  <2>3. t \in Types /\ Switching(k, t) /\ Changing(k) /\ InFlight(k) = plan
    BY <2>1, <2>2, PlanTypes DEF Switching, Changing, InFlight
  <2>4. done /\ saved'[t] = InFlight(k)
    BY <1>0, <1>a, <2>1, <2>2, <2>3
  <2>5. accepted' \in {{}, {k}} /\ (accepted' = {k} => call[k].then.what = "upload")
    <3>1. accepted' = {} \/ (accepted' = {k} /\ call[k].then.what = "upload")
      BY <1>8 DEF StatsWritten, Finish, NoReply
    <3> QED
      BY <3>1
  <2> QED
    BY <1>1, <1>6, <2>3, <2>4, <2>5
\* An upload with the checksum of the active plan
<1>9. CASE ItemWritten(k, ok, done)
  <2>1. /\ call[k].op = "item" /\ saved' = saved /\ accepted' = {k}
        /\ spent' = spent
        /\ mgr[k].crc = static.plan[mgr[k].type].crc
    <3>1. /\ call[k].op = "item" /\ saved' = saved /\ spent' = spent
          /\ accepted' = {k} /\ SamePlan([mgr EXCEPT ![k].seq = @ + 1][k])
      BY <1>1, <1>9 DEF ItemWritten, Abort, NoReply
    <3> QED
      BY <1>0, <3>1 DEF SamePlan, Manager
  <2>2. i = k /\ NoFault
    BY <2>1 DEF NoFault
  <2>3. ControlOf(k) /\ UploadOf(k) /\ mgr[k] \in Manager
    BY <1>0 DEF IInv, Control, Uploads
  <2>4. PICK t \in Types : t = mgr[k].type
    BY <2>3 DEF Manager
  <2>5. mgr[k].state = "GETLIST" /\ Receiving(k, t)
    BY <2>1, <2>3, <2>4 DEF ControlOf, Receiving
  <2>6. mgr[k].crc # <<>>
    BY <2>1, <2>3, <2>5 DEF UploadOf, Manager
  <2>7. ASSUME NEW j \in Instances, Switching(j, t) PROVE static.plan[t].crc = saved[t].crc
    <3>1. ControlOf(j) /\ Changing(j)
      BY <1>0, <2>7, OneType DEF IInv, Control
    <3>2. j # k
      BY <2>1, <3>1 DEF Changing
    <3>3. call[j].then.what # "upload"
      <4>1. SUFFICES ASSUME call[j].then.what = "upload" PROVE FALSE
        OBVIOUS
      <4>2. mgr[j].state = "GETLIST" /\ Switching(j, mgr[j].type) /\ mgr[j].type \in Types
        BY <1>0, <3>1, <4>1 DEF ControlOf, Manager
      <4>3. mgr[j].type = t
        BY <1>0, <2>7, <4>2, OneType
      <4> QED
        BY <2>5, <3>2, <4>2, <4>3 DEF IInv, Alone, Receiving
    <3>4. CASE t # Mission
      <4>1. static.plan[t] = [saved[t] EXCEPT !.id = InFlight(j).id]
        BY <2>2, <2>7, <3>4 DEF IInv, Synchronous
      <4> QED
        BY <1>0, <4>1 DEF Plan
    <3>5. CASE t = Mission
      <4>1. static.plan[t] = InFlight(j)
        BY <2>2, <2>7, <3>5 DEF IInv, Synchronous
      <4>2. InFlight(j).crc # <<>>
        BY <2>1, <2>4, <2>6, <4>1
      <4>3. call[j].then.what = "current"
        BY <3>1, <3>3, <4>2 DEF ControlOf
      <4> QED
        BY <2>2, <2>7, <4>1, <4>3 DEF IInv, Synchronous
    <3> QED
      BY <3>4, <3>5
  <2>8. static.plan[t].crc = saved[t].crc
    BY <2>2, <2>7 DEF IInv, Synchronous
  <2> QED
    BY <2>1, <2>2, <2>4, <2>8
<1> QED
  BY <1>5, <1>7, <1>8, <1>9

\* An upload is answered with ACCEPTED only when its plan is the saved one, although it
\* may be accepted without being stored (handle_mission_item_both), unless instances race
\* or an access fails.
THEOREM AcceptedSaved == Spec => AcceptedIsSaved
<1>1. IInv /\ [Next]_vars =>
        [\A i \in Instances :
           i \in accepted' /\ ~raced /\ spent'.faults = 0
           => saved'[mgr[i].type].crc = mgr[i].crc]_vars
  BY AcceptedNext
<1> QED
  BY <1>1, Invariance, PTL DEF Spec, AcceptedIsSaved
-----------------------------------------------------------------------------
(* Downloads                                                                *)

\* What an item is read for: the plan that was announced is still the active one,
\* the place is one of it, and nobody changes its statistics.
DownloadOf(i) ==
    call[i].op = "read" /\ i \notin changed /\ NoFault =>
        /\ static.plan[mgr[i].type] = mgr[i].announced
        /\ call[i].id = mgr[i].announced.id
        /\ call[i].seq < mgr[i].announced.count
        /\ mgr[i].type # Mission => \A j \in Instances : ~Switching(j, mgr[i].type)

Downloads == \A i \in Instances : DownloadOf(i)

\* A step of an instance is its own, and is recorded.
LEMMA OwnStep ==
    ASSUME TypeOK, NEW k \in Instances, Receive(k) \/ Resume(k) \/ Wait(k)
    PROVE  Others(k) /\ History
<1>0. mgr \in [Instances -> Manager] /\ call \in [Instances -> Calls]
  BY Members DEF TypeOK
<1> USE <1>0 DEF Others, Call, Return
<1>1. ASSUME NEW t \in Types, NEW n \in 0..MaxItems + 1, HandleCount(k, t, n)
      PROVE  Others(k) /\ History
  BY <1>1 DEF HandleCount
<1>2. ASSUME NEW t \in Types, NEW n \in 0..MaxItems - 1, NEW x \in Items \cup {Invalid},
             HandleItem(k, t, n, x)
      PROVE  Others(k) /\ History
  BY <1>2 DEF HandleItem, Abort, SwitchToIdle
<1>3. ASSUME NEW t \in Types, HandleRequestList(k, t)
      PROVE  Others(k) /\ History
  BY <1>3 DEF HandleRequestList, SendList
<1>4. ASSUME NEW t \in Types, NEW n \in 0..MaxItems, HandleRequest(k, t, n)
      PROVE  Others(k) /\ History
  BY <1>4 DEF HandleRequest, SwitchToIdle
<1>5. ASSUME NEW t \in Types, NEW type \in {"ACCEPTED", "CANCELLED"}, HandleAck(k, t, type)
      PROVE  Others(k) /\ History
  BY <1>5 DEF HandleAck, SwitchToIdle
<1>6. ASSUME NEW t \in Types, HandleClear(k, t)
      PROVE  Others(k) /\ History
  BY <1>6 DEF HandleClear, Begin, BeginActive, BeginStats
<1>7. CASE HandleClearAll(k) \/ HandleSetCurrent(k)
  BY <1>7 DEF HandleClearAll, HandleSetCurrent, BeginActive
<1>8. CASE Claim(k)
  BY <1>8 DEF Claim, Begin, BeginActive, BeginStats
<1>9. CASE ClearNext(k)
  BY <1>9 DEF ClearNext, BeginStats
<1>10. CASE ItemRead(k)
  BY <1>10 DEF ItemRead
<1>11. ASSUME NEW ok \in BOOLEAN, ListLoaded(k, ok)
      PROVE  Others(k) /\ History
  BY <1>11 DEF ListLoaded, SendList, Loaded
<1>12. ASSUME NEW ok \in BOOLEAN, CheckLoaded(k, ok)
      PROVE  Others(k) /\ History
  BY <1>12 DEF CheckLoaded, Check, Loaded
<1>13. ASSUME NEW ok \in BOOLEAN, NEW done \in BOOLEAN, StateWritten(k, ok, done)
      PROVE  Others(k) /\ History
  BY <1>13 DEF StateWritten, Finish, SwitchToIdle
<1>14. ASSUME NEW ok \in BOOLEAN, NEW done \in BOOLEAN, StatsWritten(k, ok, done)
      PROVE  Others(k) /\ History
  BY <1>14 DEF StatsWritten, Finish, SwitchToIdle
<1>15. ASSUME NEW ok \in BOOLEAN, NEW done \in BOOLEAN, ItemWritten(k, ok, done)
      PROVE  Others(k) /\ History
  BY <1>15 DEF ItemWritten, Abort, SwitchToIdle, Begin, BeginActive, BeginStats
<1>16. CASE Timeout(k) \/ RepeatCount(k)
  BY <1>16 DEF Timeout, RepeatCount, SwitchToIdle
<1>17. CASE CheckActive(k)
  BY <1>17 DEF CheckActive, Check
<1> HIDE <1>0 DEF Others, Call, Return
<1>18. Receive(k) => Others(k) /\ History
  BY <1>1, <1>2, <1>3, <1>4, <1>5, <1>6, <1>7 DEF Receive
<1>19. Resume(k) => Others(k) /\ History
  BY <1>8, <1>9, <1>10, <1>11, <1>12, <1>13, <1>14, <1>15 DEF Resume
<1> QED
  BY <1>16, <1>17, <1>18, <1>19 DEF Wait

\* Only a request for an item begins a read.
LEMMA ReadBegins ==
    ASSUME TypeOK, NEW k \in Instances, Receive(k) \/ Resume(k) \/ Wait(k), call'[k].op = "read"
    PROVE  \E t \in Types, n \in 0..MaxItems : HandleRequest(k, t, n)
<1>0. call \in [Instances -> Calls]
  BY DEF TypeOK
<1> DEFINE Away == call'[k].op # "read"
<1> SUFFICES ASSUME ~\E t \in Types, n \in 0..MaxItems : HandleRequest(k, t, n)
             PROVE  Away
  OBVIOUS
<1> USE <1>0 DEF Call, Return, Ready, None, NoCall
<1>1. ASSUME NEW t \in Types, NEW n \in 0..MaxItems + 1, HandleCount(k, t, n)
      PROVE  Away
  BY <1>1 DEF HandleCount
<1>2. ASSUME NEW t \in Types, NEW n \in 0..MaxItems - 1, NEW x \in Items \cup {Invalid},
             HandleItem(k, t, n, x)
      PROVE  Away
  BY <1>2 DEF HandleItem
<1>3. ASSUME NEW t \in Types, HandleRequestList(k, t)
      PROVE  Away
  BY <1>3 DEF HandleRequestList
<1>4. ASSUME NEW t \in Types, NEW type \in {"ACCEPTED", "CANCELLED"}, HandleAck(k, t, type)
      PROVE  Away
  BY <1>4 DEF HandleAck
<1>5. ASSUME NEW t \in Types, HandleClear(k, t)
      PROVE  Away
  BY <1>5 DEF HandleClear, Begin, BeginActive, BeginStats
<1>6. CASE HandleClearAll(k) \/ HandleSetCurrent(k)
  BY <1>6 DEF HandleClearAll, HandleSetCurrent, BeginActive
<1>7. CASE Claim(k)
  BY <1>7 DEF Claim, Begin, BeginActive, BeginStats
<1>8. CASE ClearNext(k)
  BY <1>8 DEF ClearNext, BeginStats
<1>9. CASE ItemRead(k)
  BY <1>9 DEF ItemRead
<1>10. ASSUME NEW ok \in BOOLEAN, ListLoaded(k, ok) \/ CheckLoaded(k, ok)
       PROVE  Away
  <2>1. CASE ListLoaded(k, ok)
    BY <2>1 DEF ListLoaded
  <2>2. CASE CheckLoaded(k, ok)
    BY <2>2 DEF CheckLoaded, Check
  <2> QED
    BY <1>10, <2>1, <2>2
<1>11. ASSUME NEW ok \in BOOLEAN, NEW done \in BOOLEAN, StateWritten(k, ok, done) \/ StatsWritten(k, ok, done)
       PROVE  Away
  BY <1>11 DEF StateWritten, StatsWritten, Finish
<1>12. ASSUME NEW ok \in BOOLEAN, NEW done \in BOOLEAN, ItemWritten(k, ok, done)
       PROVE  Away
  <2>1. ASSUME NEW m, NEW t, NEW plan, NEW busy, NEW then, Begin(k, m, t, plan, busy, then)
        PROVE  Away
    BY <2>1 DEF Begin, BeginActive, BeginStats
  <2>2. CASE Return(k)
    BY <2>2
  <2> QED
    BY <1>12, <2>1, <2>2 DEF ItemWritten
<1>13. CASE Timeout(k) \/ RepeatCount(k) \/ CheckActive(k)
  BY <1>13 DEF Timeout, RepeatCount, CheckActive, Check
<1> HIDE <1>0 DEF Call, Return, Ready, None, NoCall, Away
<1>14. Receive(k) => Away
  BY <1>1, <1>2, <1>3, <1>4, <1>5, <1>6 DEF Receive
<1>15. Resume(k) => Away
  BY <1>7, <1>8, <1>9, <1>10, <1>11, <1>12 DEF Resume
<1> QED
  BY <1>13, <1>14, <1>15 DEF Wait

\* A change of statistics begins with its area: that of an upload, or the other one.
LEMMA StatsBegin ==
    ASSUME TypeOK, NEW k \in Instances, Receive(k) \/ Resume(k) \/ Wait(k),
           NEW t \in Types, t # Mission, ~Switching(k, t), Switching(k, t)'
    PROVE  \/ static'.plan[t].id = Other(static.plan[t].id)
           \/ call[k].op = "item" /\ mgr[k].type = t /\ static'.plan[t].id = mgr[k].id
<1>0. call \in [Instances -> Calls] /\ mgr \in [Instances -> Manager] /\ static \in Statics
  BY Members DEF TypeOK
<1>1. ~Switching(k, t) /\ call'[k].op = "stats" /\ call'[k].type = t
  BY DEF Switching
<1> DEFINE Goal == \/ static'.plan[t].id = Other(static.plan[t].id)
                   \/ call[k].op = "item" /\ mgr[k].type = t /\ static'.plan[t].id = mgr[k].id
<1> SUFFICES Goal
  OBVIOUS
<1>s. ASSUME NEW plan, NEW u \in Types, NEW m, NEW busy, NEW then, BeginStats(k, m, u, plan, busy, then)
      PROVE  u = t /\ static'.plan[t].id = plan.id
  <2>1. call'[k] = [op |-> "stats", type |-> u, plan |-> plan, then |-> then]
    BY <1>0, <1>s DEF BeginStats, Call
  <2>2. u = t
    BY <2>1, <1>1
  <2>3. static'.plan = [static.plan EXCEPT ![u].id = plan.id]
    BY <1>s DEF BeginStats
  <2>4. static.plan \in [Types -> Plan]
    BY <1>0 DEF Statics, Plans
  <2> QED
    BY <2>2, <2>3, <2>4 DEF Plan
<1>a. ASSUME NEW plan, NEW m, NEW busy, NEW then, BeginActive(k, m, plan, busy, then)
      PROVE  FALSE
  BY <1>0, <1>1, <1>a DEF BeginActive, Call
<1>c. ASSUME NEW u \in Types, NEW busy, NEW then, Begin(k, mgr, u, Cleared(u), busy, then)
      PROVE  Goal
  <2>1. u # Mission /\ BeginStats(k, mgr, u, Cleared(u), busy, then)
    BY <1>a, <1>c DEF Begin
  <2>2. u = t /\ static'.plan[t].id = Cleared(u).id
    BY <1>s, <2>1
  <2> QED
    BY <2>2 DEF Cleared
<1> HIDE DEF Goal
<1> USE <1>0, <1>1 DEF Call, Return, NoCall, None
<1>2. ASSUME NEW u \in Types, NEW n \in 0..MaxItems + 1, HandleCount(k, u, n)
      PROVE  Goal
  BY <1>2 DEF HandleCount
<1>3. ASSUME NEW u \in Types, NEW n \in 0..MaxItems - 1, NEW x \in Items \cup {Invalid},
             HandleItem(k, u, n, x)
      PROVE  Goal
  BY <1>3 DEF HandleItem, Ready
<1>4. ASSUME NEW u \in Types, HandleRequestList(k, u)
      PROVE  Goal
  BY <1>4 DEF HandleRequestList, Ready
<1>5. ASSUME NEW u \in Types, NEW n \in 0..MaxItems, HandleRequest(k, u, n)
      PROVE  Goal
  BY <1>5 DEF HandleRequest, Ready
<1>6. ASSUME NEW u \in Types, NEW type \in {"ACCEPTED", "CANCELLED"}, HandleAck(k, u, type)
      PROVE  Goal
  BY <1>6 DEF HandleAck, Ready
<1>7. ASSUME NEW u \in Types, HandleClear(k, u)
      PROVE  Goal
  <2>1. Begin(k, mgr, u, Cleared(u), static.busy, Then("clear", <<>>))
    BY <1>7 DEF HandleClear
  <2> QED
    BY <2>1, <1>c
<1>8. CASE HandleClearAll(k) \/ HandleSetCurrent(k)
  BY <1>8, <1>a DEF HandleClearAll, HandleSetCurrent
<1>9. CASE Claim(k)
  <2>1. CASE Begin(k, mgr, call[k].type, Cleared(call[k].type), TRUE, Then("count", <<>>))
    <3>1. call[k].type \in Types
      BY <1>9, CallFields DEF Claim
    <3> QED
      BY <2>1, <3>1, <1>c
  <2>2. CASE Return(k)
    BY <2>2
  <2> QED
    BY <1>9, <2>1, <2>2, Zenon DEF Claim
<1>10. CASE ClearNext(k)
  <2>1. CASE call[k].todo = <<>>
    BY <1>10, <2>1 DEF ClearNext
  <2>2. CASE call[k].todo # <<>>
    <3>1. PICK u \in Types : u = Head(call[k].todo)
      <4>1. call[k].todo \in Seq(ToSet(StatTypes))
        BY <1>10, CallFields DEF ClearNext, Todo
      <4>2. Head(call[k].todo) \in ToSet(StatTypes)
        BY <2>2, <4>1
      <4> QED
        BY <4>2, PlanTypes
    <3>2. BeginStats(k, mgr, u, Cleared(u), static.busy, Then("clear", Tail(call[k].todo)))
      BY <1>10, <2>2, <3>1 DEF ClearNext
    <3>3. u = t /\ static'.plan[t].id = Cleared(u).id
      BY <3>2, <1>s
    <3> QED
      BY <3>3 DEF Cleared, Goal
  <2> QED
    BY <2>1, <2>2
<1>11. CASE ItemRead(k)
  BY <1>11 DEF ItemRead
<1>12. ASSUME NEW ok \in BOOLEAN, ListLoaded(k, ok) \/ CheckLoaded(k, ok)
       PROVE  Goal
  <2>1. CASE ListLoaded(k, ok)
    BY <2>1 DEF ListLoaded
  <2>2. CASE CheckLoaded(k, ok)
    BY <2>2 DEF CheckLoaded, Check
  <2> QED
    BY <1>12, <2>1, <2>2
<1>13. ASSUME NEW ok \in BOOLEAN, NEW done \in BOOLEAN, StateWritten(k, ok, done) \/ StatsWritten(k, ok, done)
       PROVE  Goal
  BY <1>13 DEF StateWritten, StatsWritten, Finish
<1>14. ASSUME NEW ok \in BOOLEAN, NEW done \in BOOLEAN, ItemWritten(k, ok, done)
       PROVE  Goal
  <2> DEFINE m == [mgr EXCEPT ![k].seq = @ + 1]
             u == mgr[k].type
             plan == [id |-> mgr[k].id, count |-> mgr[k].count, crc |-> mgr[k].crc]
  <2>1. call[k].op = "item" /\ u \in Types
    BY <1>14 DEF ItemWritten, Manager
  <2>2. Begin(k, m, u, plan, static.busy, Then("upload", <<>>))
    BY <1>14, <2>1 DEF ItemWritten
  <2>3. BeginStats(k, m, u, plan, static.busy, Then("upload", <<>>))
    BY <1>a, <2>2 DEF Begin
  <2>4. u = t /\ static'.plan[t].id = plan.id
    BY <2>1, <2>3, <1>s
  <2> QED
    BY <2>1, <2>4 DEF Goal
<1>15. CASE Timeout(k) \/ RepeatCount(k) \/ CheckActive(k)
  BY <1>15 DEF Timeout, RepeatCount, CheckActive, Check, Ready
<1> HIDE <1>0, <1>1 DEF Call, Return, NoCall, None
<1>16. Receive(k) => Goal
  BY <1>2, <1>3, <1>4, <1>5, <1>6, <1>7, <1>8 DEF Receive
<1>17. Resume(k) => Goal
  BY <1>9, <1>10, <1>11, <1>12, <1>13, <1>14 DEF Resume
<1> QED
  BY <1>15, <1>16, <1>17 DEF Wait, Goal

\* What was counted as a fault stays counted.
LEMMA FaultsGrow ==
    ASSUME TypeOK, NEW k \in Instances, Receive(k) \/ Resume(k) \/ Wait(k), spent'.faults = 0
    PROVE  spent.faults = 0
<1>1. UNCHANGED spent \/ Command \/ \E ok \in BOOLEAN : Access(ok)
  <2>1. Receive(k) => UNCHANGED spent \/ Command
    BY DEF Receive, HandleCount, HandleItem, HandleRequestList, HandleRequest, HandleAck,
       HandleClear, HandleClearAll, HandleSetCurrent
  <2>2. Resume(k) => UNCHANGED spent \/ \E ok \in BOOLEAN : Access(ok)
    BY DEF Resume, Claim, ClearNext, ItemRead, ListLoaded, CheckLoaded, StateWritten, StatsWritten,
       ItemWritten
  <2>3. Wait(k) => UNCHANGED spent
    BY DEF Wait, Timeout, RepeatCount, CheckActive
  <2> QED
    BY <2>1, <2>2, <2>3
<1>2. spent.faults \in Nat
  BY DEF TypeOK
<1>3. ASSUME NEW ok \in BOOLEAN, Access(ok)
      PROVE  spent'.faults = spent.faults \/ spent'.faults = spent.faults + 1
  BY <1>3, Counts
<1> QED
  BY <1>1, <1>2, <1>3, Counts

\* A read by an instance other than the one that steps
LEMMA DownloadOfOther ==
    ASSUME IInv, Downloads, TypeOK', NEW k \in Instances, Receive(k) \/ Resume(k) \/ Wait(k),
           NEW i \in Instances, i # k
    PROVE  DownloadOf(i)'
<1> SUFFICES ASSUME call'[i].op = "read", i \notin changed', NoFault'
             PROVE  (/\ static.plan[mgr[i].type] = mgr[i].announced
                     /\ call[i].id = mgr[i].announced.id
                     /\ call[i].seq < mgr[i].announced.count
                     /\ mgr[i].type # Mission => \A j \in Instances : ~Switching(j, mgr[i].type))'
  BY DEF DownloadOf
<1>1. Others(k) /\ History /\ TypeOK
  BY OwnStep DEF IInv
<1>2. mgr'[i] = mgr[i] /\ call'[i] = call[i]
  BY <1>1 DEF Others
<1>3. mgr[i].state = "SENDLIST"
  BY <1>2 DEF IInv, Control, ControlOf
<1>4. static'.plan[mgr[i].type] = mgr[i].announced /\ i \notin changed
  BY <1>1, <1>2, <1>3 DEF History
<1>5. NoFault /\ ~raced
  <2>1. ~raced
    BY <1>1, Histories DEF NoFault
  <2>2. spent.faults = 0
    BY <1>1, FaultsGrow DEF NoFault
  <2> QED
    BY <2>1, <2>2 DEF NoFault
<1>6. DownloadOf(i) /\ mgr[i] \in Manager /\ mgr[i].type \in Types
  BY <1>1, Members DEF Downloads, Manager
<1> DEFINE t == mgr[i].type
<1>7. ASSUME mgr[i].type # Mission, NEW j \in Instances, Switching(j, mgr[i].type)'
      PROVE  FALSE
  <2>0. PICK u \in Types : u = mgr[i].type /\ u # Mission
    BY <1>6, <1>7
  <2>1. \A l \in Instances : ~Switching(l, u)
    BY <1>2, <1>4, <1>5, <1>6, <2>0 DEF DownloadOf
  <2>2. j = k
    <3>1. SUFFICES ASSUME j # k PROVE FALSE
      OBVIOUS
    <3>2. call'[j] = call[j]
      BY <1>1, <3>1 DEF Others
    <3> QED
      BY <1>2, <1>7, <2>0, <2>1, <3>2 DEF Switching
  <2>3. ~Switching(k, u) /\ Switching(k, u)'
    BY <1>2, <1>7, <2>0, <2>1, <2>2 DEF Switching
  <2>4. static.plan[u] = mgr[i].announced /\ static'.plan[u] = static.plan[u] /\ static.plan[u] \in Plan
    BY <1>1, <1>2, <1>4, <1>5, <1>6, <2>0 DEF DownloadOf, TypeOK, Plans
  <2>5. static.plan[u] = saved[u] /\ Holds(store, u, saved[u])
    BY <1>5, <2>1 DEF IInv, Synchronous, SavedWhole
  <2>6. saved[u].crc # <<>>
    <3>1. call[i].seq < saved[u].count /\ saved[u].count = Len(saved[u].crc)
      BY <1>2, <1>4, <1>5, <1>6, <2>4, <2>5 DEF DownloadOf, Holds
    <3>2. call[i].seq \in Nat
      <4>1. call[i] \in Calls /\ call[i].op = "read"
        BY <1>1, <1>2 DEF TypeOK
      <4>2. call[i].seq \in 0..MaxItems
        BY <4>1, CallFields
      <4> QED
        BY <4>2, PlanTypes
    <3> QED
      BY <3>1, <3>2
  <2>7. CASE static'.plan[u].id = Other(static.plan[u].id)
    BY <2>4, <2>7, PlanTypes DEF Plan
  <2>8. CASE call[k].op = "item" /\ mgr[k].type = u /\ static'.plan[u].id = mgr[k].id
    <3>1. mgr[k].state = "GETLIST"
      BY <2>8 DEF IInv, Control, ControlOf
    <3>2. Writing(k, u)
      BY <2>8, <3>1 DEF Writing, Receiving, Changing
    <3>3. Apart(k, saved[u])
      BY <1>5, <3>2 DEF IInv, SavedWhole
    <3> QED
      BY <2>4, <2>5, <2>6, <2>8, <3>3 DEF Apart
  <2> QED
    BY <1>1, <2>0, <2>3, <2>7, <2>8, StatsBegin
<1> QED
  BY <1>2, <1>4, <1>5, <1>6, <1>7 DEF DownloadOf

\* A read that an instance begins itself
LEMMA DownloadOfOwn ==
    ASSUME IInv, TypeOK', NEW i \in Instances, Receive(i) \/ Resume(i) \/ Wait(i)
    PROVE  DownloadOf(i)'
<1> SUFFICES ASSUME call'[i].op = "read", i \notin changed', NoFault'
             PROVE  (/\ static.plan[mgr[i].type] = mgr[i].announced
                     /\ call[i].id = mgr[i].announced.id
                     /\ call[i].seq < mgr[i].announced.count
                     /\ mgr[i].type # Mission => \A j \in Instances : ~Switching(j, mgr[i].type))'
  BY DEF DownloadOf
<1>1. Others(i) /\ History /\ TypeOK
  BY OwnStep DEF IInv
<1>0. call \in [Instances -> Calls] /\ mgr \in [Instances -> Manager]
  BY <1>1, Members DEF TypeOK
<1>2. PICK t \in Types, n \in 0..MaxItems : HandleRequest(i, t, n)
  BY <1>1, ReadBegins
<1>3. Ready(i) /\ mgr[i].state = "SENDLIST" /\ mgr[i].type = t /\ static' = static
  BY <1>2 DEF HandleRequest, shared
<1>4. call' # call
  BY <1>3 DEF Ready, None
<1>5. /\ n < static.plan[t].count
      /\ call'[i] = [op |-> "read", seq |-> n, id |-> static.plan[t].id]
      /\ \E v : mgr' = [mgr EXCEPT ![i].seq = v]
  BY <1>0, <1>2, <1>4 DEF HandleRequest, Call, ReadArea
<1>6. mgr'[i].state = "SENDLIST" /\ mgr'[i].type = t
  BY <1>0, <1>3, <1>5 DEF Manager
<1>7. static.plan[t] = mgr'[i].announced
  BY <1>1, <1>3, <1>5, <1>6 DEF History
<1>8. ASSUME NEW j \in Instances, Switching(j, t)'
      PROVE  FALSE
  <2>1. j # i
    BY <1>5, <1>8 DEF Switching
  <2>2. Switching(j, t)
    BY <1>1, <1>8, <2>1 DEF Others, Switching
  <2>3. ~Reading(i, t) /\ Reading(i, t)'
    BY <1>3, <1>5, <1>6 DEF Reading, Ready, None
  <2>4. Race
    BY <2>1, <2>2, <2>3 DEF Race
  <2> QED
    BY <1>1, <2>4 DEF History, NoFault
<1> QED
  BY <1>3, <1>5, <1>6, <1>7, <1>8

\* A step keeps what the reads rely on.
LEMMA DownloadsNext ==
    ASSUME IInv, Downloads, [Next]_vars, IInv'
    PROVE  Downloads'
<1>0. TypeOK'
  BY DEF IInv
<1>1. CASE UNCHANGED vars
  BY <1>1 DEF vars, Downloads, DownloadOf, NoFault, Switching
<1>2. ASSUME NEW k \in Instances, Receive(k) \/ Resume(k) \/ Wait(k)
      PROVE  Downloads'
  BY <1>0, <1>2, DownloadOfOther, DownloadOfOwn DEF Downloads
<1>3. ASSUME NEW readable \in SUBSET Types, Restart(readable)
      PROVE  Downloads'
  BY <1>3 DEF Restart, Downloads, DownloadOf, NoCall, None
<1> QED
  BY <1>1, <1>2, <1>3 DEF Next

LEMMA DownloadsInit == Init => Downloads
BY DEF Init, Downloads, DownloadOf, NoCall, None

\* What a read returns is what was announced.
LEMMA ReadAnnounced ==
    ASSUME IInv, NEW i \in Instances, DownloadOf(i), call[i].op = "read", NoFault, i \notin changed
    PROVE  store[mgr[i].type][call[i].id][call[i].seq] = mgr[i].announced.crc[call[i].seq + 1]
<1>0. TypeOK /\ mgr[i] \in Manager
  BY Members DEF IInv
<1>1. PICK t \in Types : t = mgr[i].type
  BY <1>0 DEF Manager
<1> DEFINE plan == static.plan[t]
<1>2. plan = mgr[i].announced /\ call[i].id = plan.id /\ call[i].seq < plan.count
  BY <1>1 DEF DownloadOf
<1>3. Holds(store, t, plan)
  <2>1. CASE t = Mission
    BY <2>1 DEF IInv, FlownWhole, Flown, NoFault
  <2>2. CASE t # Mission
    <3>1. \A j \in Instances : ~Switching(j, t)
      BY <1>1, <2>2 DEF DownloadOf
    <3> QED
      BY <3>1 DEF IInv, Synchronous, SavedWhole
  <2> QED
    BY <2>1, <2>2
<1>4. call[i].seq \in Nat /\ plan \in Plan
  BY <1>0, CallFields, PlanTypes DEF TypeOK, Plans
<1>5. call[i].seq + 1 \in 1..Len(plan.crc) /\ (call[i].seq + 1) - 1 = call[i].seq
  BY <1>2, <1>3, <1>4 DEF Holds, Plan
<1>6. store[t][plan.id][(call[i].seq + 1) - 1] = plan.crc[call[i].seq + 1]
  BY <1>3, <1>5 DEF Holds
<1> QED
  BY <1>1, <1>2, <1>5, <1>6

\* An item that is sent is the one at its place in the plan that was announced, as long
\* as that plan stays the active one (handle_mission_request_both chooses the area,
\* send_mission_item reads it later), whatever others upload or clear meanwhile.
THEOREM DownloadsFaithful == Spec => DownloadFaithful
<1> DEFINE Sent(i) ==
      /\ call[i].op = "read" /\ call'[i] = NoCall
      /\ NoFault /\ i \notin changed
      => store[mgr[i].type][call[i].id][call[i].seq] = mgr[i].announced.crc[call[i].seq + 1]
<1>1. IInv /\ Downloads /\ [Next]_vars => [\A i \in Instances : Sent(i)]_vars
  BY ReadAnnounced DEF Downloads
<1>2. Spec => []Downloads
  BY Invariance, DownloadsInit, DownloadsNext, PTL DEF Spec
<1> QED
  BY <1>1, <1>2, Invariance, PTL DEF Spec, DownloadFaithful
=============================================================================
