-------------------------- MODULE DonglePortProofs --------------------------
(***************************************************************************)
(* Theorems about DonglePort, for any number of runs at the same time.     *)
(***************************************************************************)
EXTENDS DonglePort, SequenceTheorems, TLAPS

Message == (Port \X {0, 1}) \cup {<<>>}

LEMMA InitType == Init => TypeOK
<1> SUFFICES ASSUME Init PROVE TypeOK
  OBVIOUS
<1>1. (CHOOSE v \in Value : TRUE) \in Value
  BY ValueAssumption DEF ValueAssumption
<1>2. port \in [Run -> Value]
  BY <1>1 DEF Init
<1>3. wire \in Seq(Message) /\ wire = <<>>
  BY DEF Init
<1>4. uci \in Masks /\ relay \in Masks /\ relay \subseteq Port
  BY DEF Init, OnPorts, Masks
<1>5. /\ pc = [r \in Run |-> "idle"] /\ act \in [Run -> Act] /\ mask \in [Run -> Masks]
      /\ stale \in [Run -> Masks] /\ doubt \in Masks /\ cut = {} /\ crossed = {}
  BY DEF Init, Masks, Act
<1> QED
  BY <1>2, <1>3, <1>4, <1>5 DEF Init, TypeOK, Message

LEMMA StartType == ASSUME TypeOK, NEW r \in Run, Start(r) PROVE TypeOK'
<1>1. act' \in [Run -> Act] /\ port' \in [Run -> Value] /\ port'[r] \in Port
      /\ \A q \in Run \ {r} : port'[q] = port[q]
  BY DEF Start, TypeOK
<1> QED
  BY <1>1 DEF Start, Goto, TypeOK, lineVars, histories

(* What is left of a run that has ended: nothing.                          *)
LEMMA EndedLeaves ==
  ASSUME TypeOK, NEW r \in Run, NEW others, Ended(r, others)
  PROVE  /\ pc'[r] = "idle" /\ \A q \in Run \ {r} : pc'[q] = pc[q]
         /\ \A q \in Run \ {r} :
              /\ act'[q] = act[q] /\ port'[q] = port[q] /\ mask'[q] = mask[q]
              /\ (q \in cut' <=> q \in cut) /\ (q \in crossed' <=> q \in crossed)
         /\ r \notin cut' /\ r \notin crossed' /\ stale' = [others EXCEPT ![r] = {}]
  BY DEF TypeOK, Ended, Goto

LEMMA SaveLeaves ==
  ASSUME TypeOK, NEW r \in Run, Save(r)
  PROVE  \A q \in Run \ {r} :
           stale'[q] = IF pc[q] = "save" THEN stale[q] \cup ({port[r]} \cup stale[r]) ELSE stale[q]
<1>1. stale' = [Outdated({port[r]} \cup stale[r]) EXCEPT ![r] = {}]
  BY DEF Save, Ended
<1>2. \A q \in Run : Outdated({port[r]} \cup stale[r])[q] =
        IF pc[q] = "save" THEN stale[q] \cup ({port[r]} \cup stale[r]) ELSE stale[q]
  BY DEF Outdated
<1>3. DOMAIN Outdated({port[r]} \cup stale[r]) = Run
  BY DEF Outdated
<1> QED
  BY <1>1, <1>2, <1>3

LEMMA EndedType ==
  ASSUME TypeOK, NEW r \in Run, NEW others \in [Run -> Masks], Ended(r, others)
  PROVE  /\ pc' \in [Run -> {"idle", "open", "flush", "send", "query", "read", "get", "save"}]
         /\ act' \in [Run -> Act] /\ port' \in [Run -> Value]
         /\ \A q \in Run : pc'[q] # "idle" => port'[q] \in Port
         /\ mask' \in [Run -> Masks] /\ stale' \in [Run -> Masks]
         /\ cut' \subseteq Run /\ crossed' \subseteq Run
<1>1. (CHOOSE v \in Value : TRUE) \in Value
  BY ValueAssumption DEF ValueAssumption
<1>2. {} \in Masks /\ "Off" \in Act
  BY DEF Masks, Act
<1>3. act' \in [Run -> Act] /\ port' \in [Run -> Value] /\ mask' \in [Run -> Masks]
  BY <1>1, <1>2 DEF TypeOK, Ended
<1>4. \A q \in Run : pc'[q] # "idle" => q # r /\ pc[q] # "idle" /\ port'[q] = port[q]
  BY EndedLeaves
<1>5. stale' \in [Run -> Masks]
  BY <1>2 DEF Ended
<1> QED
  BY <1>3, <1>4, <1>5 DEF TypeOK, Ended, Goto

LEMMA EndsType ==
  ASSUME TypeOK, NEW r \in Run,
         \/ OpenFails(r) \/ WriteFails(r) \/ ReadTimesOut(r) \/ Save(r) \/ SaveFails(r)
         \/ RunDies(r)
  PROVE  TypeOK'
<1>0. port[r] \in Port
  BY DEF OpenFails, WriteFails, ReadTimesOut, Save, SaveFails, RunDies, TypeOK
<1>1. \A q \in Run : stale[q] \cup ({port[r]} \cup stale[r]) \in Masks
  BY <1>0 DEF TypeOK, Masks
<1>2. stale \in [Run -> Masks] /\ Outdated({port[r]} \cup stale[r]) \in [Run -> Masks]
  BY <1>1 DEF TypeOK, Outdated
<1>3. doubt' \in Masks
  BY <1>0 DEF OpenFails, WriteFails, ReadTimesOut, Save, SaveFails, RunDies, TypeOK, Masks
<1>4. uci' \in Masks \cup {Gone}
  BY DEF OpenFails, WriteFails, ReadTimesOut, Save, SaveFails, RunDies, TypeOK
<1>5. UNCHANGED lineVars
  BY DEF OpenFails, WriteFails, ReadTimesOut, Save, SaveFails, RunDies
<1>6. PICK others \in [Run -> Masks] : Ended(r, others)
  BY <1>2 DEF OpenFails, WriteFails, ReadTimesOut, Save, SaveFails, RunDies
<1>7. /\ pc' \in [Run -> {"idle", "open", "flush", "send", "query", "read", "get", "save"}]
      /\ act' \in [Run -> Act] /\ port' \in [Run -> Value]
      /\ \A q \in Run : pc'[q] # "idle" => port'[q] \in Port
      /\ mask' \in [Run -> Masks] /\ stale' \in [Run -> Masks]
      /\ cut' \subseteq Run /\ crossed' \subseteq Run
  BY <1>6, EndedType
<1> QED
  BY <1>3, <1>4, <1>5, <1>7 DEF TypeOK, lineVars

LEMMA ExchangeType ==
  ASSUME TypeOK, NEW r \in Run, Open(r) \/ Flush(r) \/ Send(r) \/ Query(r) \/ Read(r)
  PROVE  TypeOK'
<1> USE DEF TypeOK, Goto, runVars, lineVars, histories
<1>0. port[r] \in Port /\ pc[r] # "idle"
  BY DEF Open, Flush, Send, Query, Read
<1>1. CASE Open(r) \/ Read(r)
  BY <1>0, <1>1 DEF Open, Read
<1>2. CASE Flush(r)
  <2>1. wire' \in Seq(Message) /\ rx' \in BOOLEAN
    <3>1. \A k \in 0 .. Len(wire) : SubSeq(wire, 1, k) \in Seq(Message)
      BY DEF Message
    <3> QED
      BY <1>2, <3>1 DEF Flush, Message
  <2>2. crossed' \subseteq Run
    BY <1>2 DEF Flush, Meets, Talking
  <2> QED
    BY <1>0, <1>2, <2>1, <2>2 DEF Flush, Message
<1>3. CASE Send(r)
  <2>1. <<port[r], Real(r)>> \in Message
    BY <1>0 DEF Real, Message
  <2>2. wire' \in Seq(Message)
    BY <1>3, <2>1 DEF Send, Message
  <2> QED
    BY <1>0, <1>3, <2>2 DEF Send, Message
<1>4. CASE Query(r)
  <2>1. wire' \in Seq(Message)
    BY <1>4 DEF Query, Message
  <2> QED
    BY <1>0, <1>4, <2>1 DEF Query, Message
<1> QED
  BY <1>1, <1>2, <1>3, <1>4

LEMMA MaskType == ASSUME TypeOK, NEW r \in Run, Get(r) \/ GetFails(r) PROVE TypeOK'
<1> USE DEF TypeOK, Goto, runVars, lineVars, histories
<1>0. port[r] \in Port /\ pc[r] # "idle"
  BY DEF Get, GetFails
<1>1. CASE Get(r)
  <2>1. Known \in Masks
    BY DEF Known, Masks
  <2>2. Known \cup {port[r]} \in Masks /\ Known \ {port[r]} \in Masks
    BY <1>0, <2>1 DEF Masks
  <2>3. mask' \in [Run -> Masks]
    BY <1>1, <2>2 DEF Get
  <2> QED
    BY <1>0, <1>1, <2>3 DEF Get
<1>2. CASE GetFails(r)
  <2>1. {port[r]} \in Masks /\ {} \in Masks /\ Port \in Masks
    BY <1>0 DEF Masks
  <2>2. mask' \in [Run -> Masks] /\ stale' \in [Run -> Masks]
    BY <1>2, <2>1 DEF GetFails
  <2> QED
    BY <1>0, <1>2, <2>2 DEF GetFails
<1> QED
  BY <1>1, <1>2

LEMMA DongleType ==
  ASSUME TypeOK, Device \/ AnswerLate \/ Unplug \/ Plug \/ Watch
  PROVE  TypeOK'
<1> USE DEF TypeOK, runVars, lineVars, histories
<1>1. CASE Device
  <2>1. wire' \in Seq(Message)
    BY <1>1 DEF Device, Message
  <2>2. Head(wire) \in Message
    BY <1>1 DEF Device, Message
  <2>3. relay' \subseteq Port
    BY <1>1, <2>2 DEF Device, Message
  <2>4. rx' \in BOOLEAN /\ late' \in BOOLEAN
    BY <1>1 DEF Device
  <2> QED
    BY <1>1, <2>1, <2>3, <2>4 DEF Device, Message
<1>2. CASE AnswerLate \/ Plug
  BY <1>2 DEF AnswerLate, Plug
<1>3. CASE Unplug
  <2>1. wire' \in Seq(Message) /\ doubt' \in Masks
    BY <1>3 DEF Unplug, Masks
  <2> QED
    BY <1>3, <2>1 DEF Unplug, Message
<1>4. CASE Watch
  <2>1. \A q \in Run : stale[q] \cup Port \in Masks
    BY DEF Masks
  <2>2. stale' \in [Run -> Masks]
    BY <1>4, <2>1 DEF Watch, Outdated
  <2> QED
    BY <1>4, <2>2 DEF Watch
<1> QED
  BY <1>1, <1>2, <1>3, <1>4

LEMMA NextType == TypeOK /\ [Next]_vars => TypeOK'
<1> SUFFICES ASSUME TypeOK, [Next]_vars PROVE TypeOK'
  OBVIOUS
<1>1. CASE UNCHANGED vars
  BY <1>1 DEF vars, runVars, lineVars, histories, TypeOK
<1> QED
  BY <1>1, StartType, ExchangeType, EndsType, MaskType, DongleType DEF Next

(* The state of runs, line, dongle and mask is well typed.                 *)
THEOREM TypeCorrect == Spec => []TypeOK
  BY InitType, NextType, PTL DEF Spec

-----------------------------------------------------------------------------
(* What a run is about to save differs from the mask in its own port only, *)
(* as long as nobody else has saved.                                       *)
Fresh ==
  \A r \in Run : pc[r] = "save" /\ stale[r] = {} =>
    mask[r] = IF act[r] = "On" THEN Known \cup {port[r]} ELSE Known \ {port[r]}

LEMMA FreshKept == TypeOK /\ Fresh /\ [Next]_vars => Fresh'
<1> SUFFICES ASSUME TypeOK, Fresh, [Next]_vars,
                    NEW q \in Run, pc'[q] = "save", stale'[q] = {}
             PROVE  mask'[q] = IF act'[q] = "On" THEN Known' \cup {port'[q]}
                               ELSE Known' \ {port'[q]}
  BY DEF Fresh
<1> USE DEF TypeOK, Goto, runVars, lineVars, histories
<1>1. ASSUME NEW r \in Run, Start(r) \/ Open(r) \/ Flush(r) \/ Send(r) \/ Query(r) \/ Read(r)
      PROVE  /\ pc[q] = "save" /\ stale[q] = {}
             /\ mask'[q] = mask[q] /\ act'[q] = act[q] /\ port'[q] = port[q] /\ uci' = uci
  <2>1. pc'[r] # "save" /\ q # r /\ pc[q] = "save"
    BY <1>1 DEF Start, Open, Flush, Send, Query, Read
  <2> QED
    BY <1>1, <2>1 DEF Start, Open, Flush, Send, Query, Read
<1>2. ASSUME NEW r \in Run,
             OpenFails(r) \/ WriteFails(r) \/ ReadTimesOut(r) \/ SaveFails(r) \/ RunDies(r)
      PROVE  /\ pc[q] = "save" /\ stale[q] = {}
             /\ mask'[q] = mask[q] /\ act'[q] = act[q] /\ port'[q] = port[q] /\ uci' = uci
  <2>1. Ended(r, stale) /\ uci' = uci
    BY <1>2 DEF OpenFails, WriteFails, ReadTimesOut, SaveFails, RunDies
  <2>2. q # r
    BY <2>1, EndedLeaves
  <2> QED
    BY <2>1, <2>2, EndedLeaves
<1>3. ASSUME NEW r \in Run, Get(r)
      PROVE  mask'[q] = IF act'[q] = "On" THEN Known' \cup {port'[q]} ELSE Known' \ {port'[q]}
  <2>1. Known' = Known
    BY <1>3 DEF Get, Known
  <2>2. CASE q = r
    BY <1>3, <2>1, <2>2 DEF Get
  <2>3. CASE q # r
    BY <1>3, <2>1, <2>3 DEF Get, Fresh
  <2> QED
    BY <2>2, <2>3
<1>4. ASSUME NEW r \in Run, GetFails(r)
      PROVE  mask'[q] = IF act'[q] = "On" THEN Known' \cup {port'[q]} ELSE Known' \ {port'[q]}
  <2>1. Known' = Known
    BY <1>4 DEF GetFails, Known
  <2>2. q # r
    BY <1>4 DEF GetFails
  <2> QED
    BY <1>4, <2>1, <2>2 DEF GetFails, Fresh
<1>5. ASSUME NEW r \in Run, Save(r) PROVE FALSE
  <2>1. Ended(r, Outdated({port[r]} \cup stale[r]))
    BY <1>5 DEF Save
  <2>2. q # r /\ pc[q] = "save"
    BY <2>1, EndedLeaves
  <2>3. stale'[q] = stale[q] \cup ({port[r]} \cup stale[r])
    BY <1>5, <2>2, SaveLeaves
  <2> QED
    BY <2>3
<1>6. ASSUME Watch PROVE FALSE
  <2>1. port[q] \in stale'[q]
    BY <1>6 DEF Watch, Outdated
  <2> QED
    BY <2>1
<1>7. CASE Device \/ AnswerLate \/ Unplug \/ Plug \/ UNCHANGED vars
  <2>1. UNCHANGED <<pc, act, port, mask, uci, stale>>
    BY <1>7 DEF Device, AnswerLate, Unplug, Plug, vars
  <2> QED
    BY <2>1 DEF Fresh, Known
<1>8. ASSUME pc[q] = "save", stale[q] = {}, mask'[q] = mask[q], act'[q] = act[q],
             port'[q] = port[q], uci' = uci
      PROVE  mask'[q] = IF act'[q] = "On" THEN Known' \cup {port'[q]} ELSE Known' \ {port'[q]}
  BY <1>8 DEF Fresh, Known
<1> QED
  BY <1>1, <1>2, <1>3, <1>4, <1>5, <1>6, <1>7, <1>8 DEF Next

(* Only a save takes a run from "save" to its end and changes what uci     *)
(* tells.                                                                  *)
LEMMA SaveKeepsOthers ==
  ASSUME TypeOK, Fresh, [Next]_vars, NEW r \in Run, pc[r] = "save", pc'[r] = "idle",
         stale[r] = {}, uci' # uci
  PROVE  IF uci = Gone THEN uci' \subseteq {port[r]}
         ELSE \A p \in Port \ {port[r]} : (p \in uci) = (p \in uci')
<1>1. Save(r)
  <2>1. Next /\ pc' # pc
    BY DEF vars
  <2>2. ~Device /\ ~AnswerLate /\ ~Unplug /\ ~Plug /\ ~Watch
    BY <2>1 DEF Device, AnswerLate, Unplug, Plug, Watch
  <2>3. \A q \in Run :
          /\ ~Start(q) /\ ~Open(q) /\ ~OpenFails(q) /\ ~Flush(q) /\ ~Send(q) /\ ~Query(q)
          /\ ~WriteFails(q) /\ ~Read(q) /\ ~ReadTimesOut(q) /\ ~Get(q) /\ ~GetFails(q)
          /\ ~SaveFails(q) /\ ~RunDies(q)
    BY DEF Start, Open, OpenFails, Flush, Send, Query, WriteFails, Read, ReadTimesOut, Get,
       GetFails, SaveFails, RunDies, lineVars
  <2>4. PICK q \in Run : Save(q)
    BY <2>1, <2>2, <2>3 DEF Next
  <2>5. \A x \in Run \ {q} : pc'[x] = pc[x]
    BY <2>4, EndedLeaves DEF Save
  <2> QED
    BY <2>4, <2>5
<1>2. uci' = IF act[r] = "On" THEN Known \cup {port[r]} ELSE Known \ {port[r]}
  BY <1>1 DEF Save, Fresh
<1> QED
  BY <1>2 DEF Known

(* However many commands run at once, are killed or fail, one that could   *)
(* read the mask, and whose mask nobody has touched in the meantime,       *)
(* changes its own bit only.                                               *)
THEOREM OthersStay == Spec => OthersKept
<1>1. Init => Fresh
  BY DEF Init, Fresh
<1>2. TypeOK /\ Fresh /\ [Next]_vars =>
        [\A r \in Run :
           pc[r] = "save" /\ pc'[r] = "idle" /\ stale[r] = {} /\ uci' # uci =>
             (IF uci = Gone THEN uci' \subseteq {port[r]}
              ELSE \A p \in Port \ {port[r]} : (p \in uci) = (p \in uci'))]_vars
  BY SaveKeepsOthers
<1> QED
  BY <1>1, <1>2, FreshKept, InitType, NextType, PTL DEF Spec, OthersKept

-----------------------------------------------------------------------------
Switched(r) == DeviceOn(port[r]) = (act[r] = "On")
Order(r) == <<port[r], Real(r)>>

(* A run that is not crossed is the only one that talks.  Its order is the *)
(* last thing on the line, behind those of runs that are gone, and has     *)
(* been obeyed before the run asks and reads, whosesoever reply it gets;   *)
(* from then on nobody who talks, and nothing on the line, is about its    *)
(* port.                                                                   *)
Alone(r) ==
  /\ pc[r] \notin {"idle", "open"} => plugged /\ r \notin cut
  /\ pc[r] \in {"send", "query", "read"} => \A q \in Talking : q = r
  /\ pc[r] = "query" =>
       (wire # <<>> /\ wire[Len(wire)] = Order(r)) \/ (wire = <<>> /\ Switched(r))
  /\ pc[r] = "read" => Switched(r) /\ \A i \in DOMAIN wire : wire[i] = <<>>
  /\ pc[r] \in {"get", "save"} =>
       /\ Switched(r)
       /\ \A q \in Talking : port[q] # port[r]
       /\ \A i \in DOMAIN wire : wire[i] # <<>> => wire[i][1] # port[r]

Undisturbed == \A r \in Run : r \notin crossed => Alone(r)

(* The relay that Order(r) asks for is the one that switches the device.   *)
LEMMA RealSwitches ==
  ASSUME TypeOK, NEW r \in Run, port[r] \in Port,
         relay' = IF Order(r)[2] = 1 THEN relay \cup {Order(r)[1]} ELSE relay \ {Order(r)[1]},
         UNCHANGED <<act, port>>
  PROVE  Switched(r)'
<1>1. Order(r)[1] = port[r] /\ Order(r)[2] = Real(r)
  BY DEF Order
<1>2. (port[r] \in relay') <=> Real(r) = 1
  BY <1>1
<1>3. Real(r) = 1 <=> ((act[r] = "On") # (port[r] \in NormallyClosed))
  BY DEF Real
<1> QED
  BY <1>2, <1>3 DEF Switched, DeviceOn

LEMMA InitAlone == Init => Undisturbed
  BY DEF Init, Undisturbed, Alone, Talking

(* A descriptor belongs to a dongle that is out only while it is open.     *)
Closed == \A r \in Run : pc[r] \in {"idle", "open"} => r \notin cut

LEMMA ClosedKept == TypeOK /\ Closed /\ [Next]_vars => Closed'
<1> SUFFICES ASSUME TypeOK, Closed, [Next]_vars, NEW q \in Run, pc'[q] \in {"idle", "open"}
             PROVE  q \notin cut'
  BY DEF Closed
<1>1. ASSUME NEW r \in Run, Start(r) PROVE q \notin cut'
  BY <1>1 DEF Start, Goto, TypeOK, Closed
<1>2. ASSUME NEW r \in Run,
             Open(r) \/ Flush(r) \/ Send(r) \/ Query(r) \/ Read(r) \/ Get(r) \/ GetFails(r)
      PROVE  q \notin cut'
  <2>1. pc'[r] \notin {"idle", "open"} /\ cut' = cut /\ \A x \in Run \ {r} : pc'[x] = pc[x]
    BY <1>2 DEF Open, Flush, Send, Query, Read, Get, GetFails, Goto, TypeOK
  <2> QED
    BY <2>1 DEF Closed
<1>3. ASSUME NEW r \in Run,
             \/ OpenFails(r) \/ WriteFails(r) \/ ReadTimesOut(r) \/ Save(r) \/ SaveFails(r)
             \/ RunDies(r)
      PROVE  q \notin cut'
  <2>1. PICK others : Ended(r, others)
    BY <1>3 DEF OpenFails, WriteFails, ReadTimesOut, Save, SaveFails, RunDies
  <2> QED
    BY <2>1, EndedLeaves DEF Closed
<1>4. CASE Unplug
  BY <1>4 DEF Unplug
<1>5. CASE Device \/ AnswerLate \/ Plug \/ Watch \/ UNCHANGED vars
  BY <1>5 DEF Device, AnswerLate, Plug, Watch, vars, Closed
<1> QED
  BY <1>1, <1>2, <1>3, <1>4, <1>5 DEF Next

(* Steps of r itself.                                                      *)
LEMMA OwnStep ==
  ASSUME TypeOK, Closed, Undisturbed, NEW r \in Run, r \notin crossed',
         \/ Start(r) \/ Open(r) \/ Flush(r) \/ Send(r) \/ Query(r) \/ Read(r) \/ Get(r)
         \/ GetFails(r)
  PROVE  Alone(r)'
<1> USE DEF TypeOK, Goto, runVars, lineVars, histories
<1>1. CASE Start(r)
  BY <1>1 DEF Start, Alone
<1>2. CASE Open(r)
  BY <1>2 DEF Open, Alone, Closed
<1> SUFFICES ASSUME Flush(r) \/ Send(r) \/ Query(r) \/ Read(r) \/ Get(r) \/ GetFails(r)
             PROVE  Alone(r)'
  BY <1>1, <1>2
<1>3. r \notin crossed
  BY DEF Flush, Send, Query, Read, Get, GetFails
<1>4. Alone(r) /\ plugged /\ r \notin cut
  BY <1>3 DEF Undisturbed, Alone, Flush, Send, Query, Read, Get, GetFails
<1>5. CASE Flush(r)
  <2>1. Meets(r) = {} /\ plugged' /\ r \notin cut'
    BY <1>4, <1>5 DEF Flush
  <2>2. pc'[r] = "send" /\ \A q \in Run \ {r} : pc'[q] = pc[q]
    BY <1>5 DEF Flush
  <2>3. \A q \in Talking' : q = r
    BY <2>1, <2>2 DEF Meets, Talking
  <2> QED
    BY <2>1, <2>2, <2>3 DEF Alone
<1>6. CASE Send(r)
  <2>1. wire' = Append(wire, Order(r)) /\ Order(r)' = Order(r)
    BY <1>4, <1>6 DEF Send, Order, Real
  <2>2. wire' # <<>> /\ wire'[Len(wire')] = Order(r)'
    BY <2>1
  <2>3. pc'[r] = "query" /\ Talking' = Talking /\ plugged' /\ r \notin cut'
    BY <1>4, <1>6 DEF Send, Talking
  <2> QED
    BY <1>4, <1>6, <2>2, <2>3 DEF Send, Alone
<1>7. CASE Query(r)
  <2>1. Switched(r)' = Switched(r) /\ wire' = Append(wire, <<>>)
    BY <1>7 DEF Query, Switched, DeviceOn
  <2>2. ASSUME wire # <<>> /\ wire[Len(wire)] = Order(r) PROVE FALSE
    <3>1. Len(wire) \in DOMAIN wire
      BY <2>2
    <3> QED
      BY <1>7, <2>2, <3>1 DEF Query, Order
  <2>3. wire = <<>> /\ Switched(r)
    BY <1>4, <1>7, <2>2 DEF Query, Alone
  <2>4. \A i \in DOMAIN wire' : wire'[i] = <<>>
    BY <2>1, <2>3
  <2>5. pc'[r] = "read" /\ Talking' = Talking /\ plugged' /\ r \notin cut'
    BY <1>4, <1>7 DEF Query, Talking
  <2> QED
    BY <1>4, <1>7, <2>1, <2>3, <2>4, <2>5 DEF Query, Alone
<1>8. CASE Read(r)
  <2>1. Switched(r) /\ \A i \in DOMAIN wire : wire[i] = <<>>
    BY <1>4, <1>8 DEF Read, Alone
  <2>2. Switched(r)' /\ wire' = wire /\ pc'[r] = "get" /\ plugged' /\ r \notin cut'
    BY <1>4, <1>8, <2>1 DEF Read, Switched, DeviceOn
  <2>3. Talking' = {}
    BY <1>4, <1>8 DEF Read, Alone, Talking
  <2> QED
    BY <2>1, <2>2, <2>3 DEF Alone
<1>9. CASE Get(r) \/ GetFails(r)
  <2>1. /\ pc[r] = "get" /\ pc'[r] = "save" /\ Talking' = Talking /\ Switched(r)' = Switched(r)
        /\ UNCHANGED <<wire, port, plugged, cut>>
    BY <1>9 DEF Get, GetFails, Talking, Switched, DeviceOn
  <2> QED
    BY <1>4, <2>1 DEF Alone
<1> QED
  BY <1>5, <1>6, <1>7, <1>8, <1>9

(* The end of another run.                                                 *)
LEMMA OtherEnds ==
  ASSUME TypeOK, Undisturbed, NEW r \in Run, r \notin crossed', NEW q \in Run, q # r,
         \/ OpenFails(q) \/ WriteFails(q) \/ ReadTimesOut(q) \/ Save(q) \/ SaveFails(q)
         \/ RunDies(q)
  PROVE  Alone(r)'
<1>1. PICK others : Ended(q, others)
  BY DEF OpenFails, WriteFails, ReadTimesOut, Save, SaveFails, RunDies
<1>2. UNCHANGED lineVars
  BY DEF OpenFails, WriteFails, ReadTimesOut, Save, SaveFails, RunDies
<1>3. /\ \A x \in Run \ {q} : pc'[x] = pc[x] /\ port'[x] = port[x] /\ act'[x] = act[x]
      /\ pc'[q] = "idle"
      /\ (r \in cut' <=> r \in cut) /\ (r \in crossed' <=> r \in crossed)
  BY <1>1, EndedLeaves
<1>4. Alone(r)
  BY <1>3 DEF Undisturbed
<1>5. Talking' \subseteq Talking /\ q \notin Talking'
  BY <1>3 DEF Talking
<1>6. \A x \in Talking' : x \in Talking /\ port'[x] = port[x]
  BY <1>3, <1>5 DEF Talking
<1>7. Switched(r)' = Switched(r) /\ Order(r)' = Order(r)
  BY <1>2, <1>3 DEF Switched, DeviceOn, Order, Real, lineVars
<1> QED
  BY <1>2, <1>3, <1>4, <1>6, <1>7 DEF Alone, lineVars

(* Other steps of another run.                                             *)
LEMMA OtherStep ==
  ASSUME TypeOK, Undisturbed, NEW r \in Run, r \notin crossed', NEW q \in Run, q # r,
         \/ Start(q) \/ Open(q) \/ Flush(q) \/ Send(q) \/ Query(q) \/ Read(q) \/ Get(q)
         \/ GetFails(q)
  PROVE  Alone(r)'
<1> USE DEF TypeOK, Goto, runVars, lineVars, histories
<1>1. r \notin crossed /\ Alone(r)
  BY DEF Undisturbed, Start, Open, Flush, Send, Query, Read, Get, GetFails
<1>2. /\ pc'[r] = pc[r] /\ port'[r] = port[r] /\ act'[r] = act[r] /\ relay' = relay
      /\ plugged' = plugged /\ (r \in cut' <=> r \in cut)
  BY DEF Start, Open, Flush, Send, Query, Read, Get, GetFails
<1>3. Switched(r)' = Switched(r) /\ Order(r)' = Order(r)
  BY <1>2 DEF Switched, DeviceOn, Order, Real
<1>4. CASE Start(q) \/ Open(q) \/ Get(q) \/ GetFails(q)
  <2>1. Talking' = Talking /\ q \notin Talking /\ UNCHANGED wire
        /\ \A x \in Run \ {q} : port'[x] = port[x]
    BY <1>4 DEF Start, Open, Get, GetFails, Talking
  <2> QED
    BY <1>1, <1>2, <1>3, <2>1 DEF Alone, Talking
<1>5. CASE Flush(q)
  <2>1. r \notin Talking /\ ~(pc[r] \in {"get", "save"} /\ port[r] = port[q])
    BY <1>5 DEF Flush, Meets
  <2>2. Talking' \subseteq Talking \cup {q} /\ port' = port
    BY <1>5 DEF Flush, Talking
  <2>3. \A i \in DOMAIN wire' : i \in DOMAIN wire /\ wire'[i] = wire[i]
    BY <1>5 DEF Flush
  <2>4. pc[r] \notin {"send", "query", "read"}
    BY <2>1 DEF Talking
  <2> QED
    BY <1>1, <1>2, <1>3, <2>1, <2>2, <2>3, <2>4 DEF Alone
<1> SUFFICES ASSUME Send(q) \/ Query(q) \/ Read(q) PROVE Alone(r)'
  BY <1>4, <1>5
<1>6. q \in Talking /\ Talking' \subseteq Talking /\ port' = port
  BY DEF Send, Query, Read, Talking
<1>7. pc[r] \notin {"send", "query", "read"}
  BY <1>1, <1>6 DEF Alone
<1>8. ASSUME pc[r] \in {"get", "save"}, NEW i \in DOMAIN wire', wire'[i] # <<>>
      PROVE  wire'[i][1] # port[r]
  <2>1. port[q] # port[r] /\ \A j \in DOMAIN wire : wire[j] # <<>> => wire[j][1] # port[r]
    BY <1>1, <1>6, <1>8 DEF Alone
  <2>2. CASE Send(q)
    <3>1. wire' = Append(wire, <<port[q], Real(q)>>)
      BY <2>2 DEF Send
    <3>2. CASE i = Len(wire) + 1
      <4>1. wire'[i] = <<port[q], Real(q)>>
        BY <3>1, <3>2
      <4> QED
        BY <2>1, <4>1
    <3>3. CASE i # Len(wire) + 1
      <4>1. i \in DOMAIN wire /\ wire'[i] = wire[i]
        BY <3>1, <3>3
      <4> QED
        BY <1>8, <2>1, <4>1
    <3> QED
      BY <3>2, <3>3
  <2>3. CASE Query(q)
    <3>1. wire' = Append(wire, <<>>)
      BY <2>3 DEF Query
    <3>2. i \in DOMAIN wire /\ wire'[i] = wire[i]
      BY <1>8, <3>1
    <3> QED
      BY <1>8, <2>1, <3>2
  <2>4. CASE Read(q)
    BY <1>8, <2>1, <2>4 DEF Read
  <2> QED
    BY <2>2, <2>3, <2>4
<1> QED
  BY <1>1, <1>2, <1>3, <1>6, <1>7, <1>8 DEF Alone

(* The dongle obeys the order of a run that is alone once it has obeyed    *)
(* all that was on the line before.                                        *)
LEMMA DeviceStep ==
  ASSUME TypeOK, Closed, Undisturbed, NEW r \in Run, r \notin crossed, Device
  PROVE  Alone(r)'
<1> USE DEF TypeOK, runVars, lineVars, histories
<1>1. Alone(r)
  BY DEF Undisturbed
<1>2. /\ wire # <<>> /\ wire' = Tail(wire) /\ Talking' = Talking
      /\ UNCHANGED <<pc, act, port, mask, cut, plugged>>
  BY DEF Device, Talking
<1>3. Order(r)' = Order(r)
  BY <1>2 DEF Order, Real
<1>4. CASE pc[r] \in {"idle", "open", "flush", "send"}
  BY <1>1, <1>2, <1>4 DEF Alone
<1>5. CASE pc[r] = "query"
  <2>1. wire[Len(wire)] = Order(r) /\ Order(r) # <<>>
    BY <1>1, <1>2, <1>5 DEF Alone, Order
  <2>2. CASE Len(wire) = 1
    <3>1. Head(wire) = Order(r) /\ wire' = <<>>
      BY <1>2, <2>1, <2>2
    <3>2. relay' = IF Order(r)[2] = 1 THEN relay \cup {Order(r)[1]} ELSE relay \ {Order(r)[1]}
      BY <2>1, <3>1 DEF Device
    <3>3. port[r] \in Port
      BY <1>5
    <3>4. Switched(r)'
      BY <1>2, <3>2, <3>3, RealSwitches
    <3> QED
      BY <1>1, <1>2, <1>5, <3>1, <3>4 DEF Alone
  <2>3. CASE Len(wire) # 1
    <3>1. Len(wire') = Len(wire) - 1 /\ Len(wire') \in Nat \ {0}
      BY <1>2, <2>3
    <3>2. \A i \in 1 .. Len(wire') : wire'[i] = wire[i + 1]
      BY <1>2, <3>1
    <3>3. wire'[Len(wire')] = wire[Len(wire)]
      BY <3>1, <3>2
    <3>4. wire' # <<>>
      BY <3>1
    <3> QED
      BY <1>1, <1>2, <1>3, <1>5, <2>1, <3>3, <3>4 DEF Alone
  <2> QED
    BY <2>2, <2>3
<1>6. CASE pc[r] = "read"
  <2>1. Switched(r) /\ \A i \in DOMAIN wire : wire[i] = <<>>
    BY <1>1, <1>6 DEF Alone
  <2>2. 1 \in DOMAIN wire /\ Head(wire) = wire[1]
    BY <1>2
  <2>3. relay' = relay
    BY <2>1, <2>2 DEF Device
  <2>4. Switched(r)'
    BY <1>2, <2>1, <2>3 DEF Switched, DeviceOn
  <2>5. \A i \in DOMAIN wire' : i + 1 \in DOMAIN wire /\ wire'[i] = wire[i + 1]
    BY <1>2
  <2>6. \A i \in DOMAIN wire' : wire'[i] = <<>>
    BY <2>1, <2>5
  <2> QED
    BY <1>1, <1>2, <1>6, <2>4, <2>6 DEF Alone
<1>7. CASE pc[r] \in {"get", "save"}
  <2>1. /\ Switched(r) /\ plugged /\ r \notin cut
        /\ \A q \in Talking : port[q] # port[r]
        /\ \A i \in DOMAIN wire : wire[i] # <<>> => wire[i][1] # port[r]
    BY <1>1, <1>7 DEF Alone
  <2>2. \A i \in DOMAIN wire' : i + 1 \in DOMAIN wire /\ wire'[i] = wire[i + 1]
    BY <1>2
  <2>3. \A i \in DOMAIN wire' : wire'[i] # <<>> => wire'[i][1] # port'[r]
    BY <1>2, <2>1, <2>2
  <2>4. (port[r] \in relay') <=> (port[r] \in relay)
    <3>1. 1 \in DOMAIN wire /\ Head(wire) = wire[1]
      BY <1>2
    <3>2. Head(wire) # <<>> => Head(wire)[1] # port[r]
      BY <2>1, <3>1
    <3> QED
      BY <3>2 DEF Device
  <2>5. Switched(r)'
    BY <1>2, <2>1, <2>4 DEF Switched, DeviceOn
  <2> QED
    BY <1>2, <1>7, <2>1, <2>3, <2>5 DEF Alone
<1> QED
  BY <1>4, <1>5, <1>6, <1>7

(* The other steps of the world: one that would disturb r puts it among    *)
(* the crossed.                                                            *)
LEMMA WorldStep ==
  ASSUME TypeOK, Closed, Undisturbed, NEW r \in Run, r \notin crossed',
         AnswerLate \/ Unplug \/ Plug \/ Watch \/ UNCHANGED vars
  PROVE  Alone(r)'
<1> USE DEF TypeOK, runVars, lineVars, histories
<1>1. CASE Unplug
  <2>1. pc'[r] \in {"idle", "open"}
    BY <1>1 DEF Unplug
  <2> QED
    BY <2>1 DEF Alone
<1> SUFFICES ASSUME AnswerLate \/ Plug \/ Watch \/ UNCHANGED vars PROVE Alone(r)'
  BY <1>1
<1>2. /\ Alone(r) /\ Talking' = Talking /\ UNCHANGED <<pc, act, port, cut, wire, relay>>
      /\ plugged => plugged'
  BY DEF Undisturbed, AnswerLate, Plug, Watch, vars, Talking
<1>3. Switched(r)' = Switched(r) /\ Order(r)' = Order(r)
  BY <1>2 DEF Switched, DeviceOn, Order, Real
<1> QED
  BY <1>2, <1>3 DEF Alone

LEMMA NextAlone == TypeOK /\ Closed /\ Undisturbed /\ [Next]_vars => Undisturbed'
<1> SUFFICES ASSUME TypeOK, Closed, Undisturbed, [Next]_vars, NEW r \in Run, r \notin crossed'
             PROVE  Alone(r)'
  BY DEF Undisturbed
<1>1. CASE Device
  <2>1. r \notin crossed
    BY <1>1 DEF Device, histories
  <2> QED
    BY <1>1, <2>1, DeviceStep
<1>2. CASE AnswerLate \/ Unplug \/ Plug \/ Watch \/ UNCHANGED vars
  BY <1>2, WorldStep
<1>3. ASSUME NEW q \in Run,
             \/ Start(q) \/ Open(q) \/ Flush(q) \/ Send(q) \/ Query(q) \/ Read(q) \/ Get(q)
             \/ GetFails(q)
      PROVE  Alone(r)'
  BY <1>3, OwnStep, OtherStep
<1>4. ASSUME NEW q \in Run,
             \/ OpenFails(q) \/ WriteFails(q) \/ ReadTimesOut(q) \/ Save(q) \/ SaveFails(q)
             \/ RunDies(q)
      PROVE  Alone(r)'
  <2>1. CASE q = r
    <3>1. pc'[r] = "idle"
      <4>1. PICK others : Ended(q, others)
        BY <1>4 DEF OpenFails, WriteFails, ReadTimesOut, Save, SaveFails, RunDies
      <4> QED
        BY <2>1, <4>1, EndedLeaves
    <3> QED
      BY <3>1 DEF Alone
  <2> QED
    BY <1>4, <2>1, OtherEnds
<1> QED
  BY <1>1, <1>2, <1>3, <1>4 DEF Next

(* Whatever orders, queries and late replies earlier runs have left behind *)
(* on the line, and however many run at once, a run that reads a reply and *)
(* that no other one has met has its device in the state it was asked for. *)
THEOREM SuccessSwitches == Spec => []SuccessMeansSwitched
<1>1. Init => Closed
  BY DEF Init, Closed
<1>2. Undisturbed => SuccessMeansSwitched
  BY DEF Undisturbed, Alone, Switched, SuccessMeansSwitched
<1> QED
  BY <1>1, <1>2, InitAlone, InitType, NextType, ClosedKept, NextAlone, PTL DEF Spec

-----------------------------------------------------------------------------
(* The mask.  A run has a port p in its hands from its first byte to the   *)
(* dongle until it has saved; otherwise a port that is not in doubt has    *)
(* the right bit, and nothing on the line is going to change it.           *)
Holds(r, p) == port[r] = p /\ r \notin cut /\ pc[r] \in {"query", "read", "get", "save"}

Settled(p) ==
  /\ (p \in uci) = DeviceOn(p)
  /\ \A i \in DOMAIN wire : wire[i] # <<>> => wire[i][1] # p

Settling ==
  \A p \in Port \ doubt : (\A r \in Run : ~Holds(r, p)) => Settled(p)

(* While the dongle is out, or -1 stands for the mask, every port is in    *)
(* doubt, and no run under way will lift it.                               *)
Doubted ==
  /\ ~plugged => \A r \in Run : pc[r] \notin {"idle", "open"} => r \in crossed
  /\ ~plugged \/ uci = Gone => doubt = Port
  /\ \A r \in Run : r \in cut => pc[r] \in {"flush", "send", "query", "read"}

(* What a run is about to save.                                            *)
Kept ==
  \A r \in Run : pc[r] = "save" =>
    /\ (port[r] \in mask[r]) = (act[r] = "On")
    /\ \A p \in Port \ (stale[r] \cup {port[r]}) : (p \in mask[r]) = (p \in Known)

LEMMA NotGone == \A S \in Masks : S # Gone
  BY ValueAssumption DEF ValueAssumption, Masks, Gone

LEMMA DoubtedKept == TypeOK /\ Closed /\ Doubted /\ [Next]_vars => Doubted'
<1> SUFFICES ASSUME TypeOK, Closed, Doubted, [Next]_vars PROVE Doubted'
  OBVIOUS
<1> USE DEF TypeOK, Doubted, Goto, runVars, lineVars, histories
<1>1. ASSUME NEW r \in Run, Start(r) PROVE Doubted'
  BY <1>1 DEF Start
<1>2. ASSUME NEW r \in Run, Open(r) \/ Read(r) \/ Get(r) \/ GetFails(r) PROVE Doubted'
  <2>1. /\ UNCHANGED <<plugged, uci, doubt, cut, crossed>>
        /\ \A q \in Run \ {r} : pc'[q] = pc[q]
    BY <1>2 DEF Open, Read, Get, GetFails
  <2>2. ~plugged /\ pc'[r] \notin {"idle", "open"} => r \in crossed
    BY <1>2 DEF Open, Read, Get, GetFails
  <2>3. r \in cut => pc'[r] \in {"flush", "send", "query", "read"}
    BY <1>2 DEF Open, Read, Get, GetFails, Closed
  <2> QED
    BY <2>1, <2>2, <2>3
<1>3. ASSUME NEW r \in Run, Flush(r) PROVE Doubted'
  BY <1>3 DEF Flush
<1>4. ASSUME NEW r \in Run, Send(r) \/ Query(r) PROVE Doubted'
  BY <1>4 DEF Send, Query
<1>5. ASSUME NEW r \in Run,
             \/ OpenFails(r) \/ WriteFails(r) \/ ReadTimesOut(r) \/ Save(r) \/ SaveFails(r)
             \/ RunDies(r)
      PROVE Doubted'
  <2>1. PICK others : Ended(r, others)
    BY <1>5 DEF OpenFails, WriteFails, ReadTimesOut, Save, SaveFails, RunDies
  <2>2. /\ pc'[r] = "idle" /\ r \notin cut'
        /\ \A q \in Run \ {r} : /\ pc'[q] = pc[q] /\ (q \in cut' <=> q \in cut)
                                /\ (q \in crossed' <=> q \in crossed)
    BY <2>1, EndedLeaves
  <2>3. plugged' = plugged
    BY <1>5 DEF OpenFails, WriteFails, ReadTimesOut, Save, SaveFails, RunDies
  <2>4. uci' = Gone => uci = Gone
    <3>1. CASE Save(r)
      BY <3>1, NotGone DEF Save
    <3> QED
      BY <1>5, <3>1 DEF OpenFails, WriteFails, ReadTimesOut, SaveFails, RunDies
  <2>5. doubt' \in Masks
    BY <1>5, EndsType
  <2>6. ~plugged' \/ uci' = Gone => doubt' = Port
    <3>1. CASE Save(r)
      <4>1. uci' # Gone
        BY <3>1, NotGone DEF Save
      <4>2. ~plugged => doubt' = Port
        BY <2>5, <3>1 DEF Save, Masks
      <4> QED
        BY <2>3, <4>1, <4>2
    <3>2. CASE ~Save(r)
      <4>1. doubt \subseteq doubt'
        BY <1>5, <3>2 DEF OpenFails, WriteFails, ReadTimesOut, SaveFails, RunDies
      <4> QED
        BY <2>3, <2>4, <2>5, <4>1 DEF Masks
    <3> QED
      BY <3>1, <3>2
  <2> QED
    BY <2>2, <2>3, <2>6
<1>6. CASE Device \/ AnswerLate \/ Plug \/ UNCHANGED vars
  BY <1>6 DEF Device, AnswerLate, Plug, vars
<1>7. CASE Unplug
  BY <1>7 DEF Unplug
<1>8. CASE Watch
  BY <1>8 DEF Watch
<1> QED
  BY <1>1, <1>2, <1>3, <1>4, <1>5, <1>6, <1>7, <1>8 DEF Next

LEMMA KeptKept == TypeOK /\ Kept /\ [Next]_vars => Kept'
<1> SUFFICES ASSUME TypeOK, Kept, [Next]_vars, NEW q \in Run, pc'[q] = "save"
             PROVE  /\ (port'[q] \in mask'[q]) = (act'[q] = "On")
                    /\ \A p \in Port \ (stale'[q] \cup {port'[q]}) :
                         (p \in mask'[q]) = (p \in Known')
  BY DEF Kept
<1> USE DEF TypeOK, Goto, runVars, lineVars, histories
<1>1. ASSUME NEW r \in Run, Start(r) \/ Open(r) \/ Flush(r) \/ Send(r) \/ Query(r) \/ Read(r)
      PROVE  /\ pc[q] = "save" /\ stale'[q] = stale[q]
             /\ mask'[q] = mask[q] /\ act'[q] = act[q] /\ port'[q] = port[q] /\ uci' = uci
  <2>1. pc'[r] # "save" /\ q # r /\ pc[q] = "save"
    BY <1>1 DEF Start, Open, Flush, Send, Query, Read
  <2> QED
    BY <1>1, <2>1 DEF Start, Open, Flush, Send, Query, Read
<1>2. ASSUME NEW r \in Run,
             OpenFails(r) \/ WriteFails(r) \/ ReadTimesOut(r) \/ SaveFails(r) \/ RunDies(r)
      PROVE  /\ pc[q] = "save" /\ stale'[q] = stale[q]
             /\ mask'[q] = mask[q] /\ act'[q] = act[q] /\ port'[q] = port[q] /\ uci' = uci
  <2>1. Ended(r, stale) /\ uci' = uci
    BY <1>2 DEF OpenFails, WriteFails, ReadTimesOut, SaveFails, RunDies
  <2>2. q # r
    BY <2>1, EndedLeaves
  <2> QED
    BY <2>1, <2>2, EndedLeaves
<1>3. ASSUME NEW r \in Run, Get(r) \/ GetFails(r)
      PROVE  /\ (port'[q] \in mask'[q]) = (act'[q] = "On")
             /\ \A p \in Port \ (stale'[q] \cup {port'[q]}) : (p \in mask'[q]) = (p \in Known')
  <2>1. Known' = Known /\ UNCHANGED <<port, act>>
    BY <1>3 DEF Get, GetFails, Known
  <2>2. ASSUME q = r, Get(r)
        PROVE  /\ (port'[q] \in mask'[q]) = (act'[q] = "On")
               /\ \A p \in Port \ (stale'[q] \cup {port'[q]}) : (p \in mask'[q]) = (p \in Known')
    BY <2>1, <2>2 DEF Get
  <2>3. ASSUME q = r, GetFails(r)
        PROVE  /\ (port'[q] \in mask'[q]) = (act'[q] = "On")
               /\ \A p \in Port \ (stale'[q] \cup {port'[q]}) : (p \in mask'[q]) = (p \in Known')
    BY <2>1, <2>3 DEF GetFails
  <2>4. CASE q # r
    <3>1. pc[q] = "save" /\ mask'[q] = mask[q] /\ stale'[q] = stale[q]
      BY <1>3, <2>4 DEF Get, GetFails
    <3> QED
      BY <2>1, <3>1 DEF Kept
  <2> QED
    BY <1>3, <2>2, <2>3, <2>4
<1>4. ASSUME NEW r \in Run, Save(r)
      PROVE  /\ (port'[q] \in mask'[q]) = (act'[q] = "On")
             /\ \A p \in Port \ (stale'[q] \cup {port'[q]}) : (p \in mask'[q]) = (p \in Known')
  <2>1. Ended(r, Outdated({port[r]} \cup stale[r])) /\ uci' = mask[r] /\ pc[r] = "save"
    BY <1>4 DEF Save
  <2>2. /\ q # r /\ pc[q] = "save"
        /\ port'[q] = port[q] /\ act'[q] = act[q] /\ mask'[q] = mask[q]
    BY <2>1, EndedLeaves
  <2>3. stale'[q] = stale[q] \cup ({port[r]} \cup stale[r])
    BY <1>4, <2>2, SaveLeaves
  <2>4. Known' = mask[r]
    BY <2>1, NotGone DEF Known
  <2>5. \A p \in Port \ (stale[r] \cup {port[r]}) : (p \in mask[r]) = (p \in Known)
    BY <2>1 DEF Kept
  <2>6. \A p \in Port \ (stale[q] \cup {port[q]}) : (p \in mask[q]) = (p \in Known)
    BY <2>2 DEF Kept
  <2>7. (port[q] \in mask[q]) = (act[q] = "On")
    BY <2>2 DEF Kept
  <2> QED
    BY <2>2, <2>3, <2>4, <2>5, <2>6, <2>7
<1>5. ASSUME Watch
      PROVE  /\ (port'[q] \in mask'[q]) = (act'[q] = "On")
             /\ \A p \in Port \ (stale'[q] \cup {port'[q]}) : (p \in mask'[q]) = (p \in Known')
  <2>1. Port \subseteq stale'[q] /\ pc[q] = "save" /\ UNCHANGED <<port, act, mask>>
    BY <1>5 DEF Watch, Outdated
  <2> QED
    BY <2>1 DEF Kept
<1>6. CASE Device \/ AnswerLate \/ Unplug \/ Plug \/ UNCHANGED vars
  <2>1. UNCHANGED <<pc, act, port, mask, uci, stale>>
    BY <1>6 DEF Device, AnswerLate, Unplug, Plug, vars
  <2> QED
    BY <2>1 DEF Kept, Known
<1>7. ASSUME pc[q] = "save", stale'[q] = stale[q], mask'[q] = mask[q], act'[q] = act[q],
             port'[q] = port[q], uci' = uci
      PROVE  /\ (port'[q] \in mask'[q]) = (act'[q] = "On")
             /\ \A p \in Port \ (stale'[q] \cup {port'[q]}) : (p \in mask'[q]) = (p \in Known')
  BY <1>7 DEF Kept, Known
<1> QED
  BY <1>1, <1>2, <1>3, <1>4, <1>5, <1>6, <1>7 DEF Next

(* Steps that save nothing keep what is settled.                           *)
LEMMA SettledKept ==
  ASSUME TypeOK, Doubted, [Next]_vars, NEW p \in Port, Settled(p), uci' = uci, plugged' = plugged,
         \A r \in Run : ~Holds(r, p)
  PROVE  (\A r \in Run : ~Holds(r, p)') => Settled(p)'
<1> SUFFICES ASSUME \A r \in Run : ~Holds(r, p)' PROVE Settled(p)'
  OBVIOUS
<1> USE DEF TypeOK, Goto, runVars, lineVars, histories
<1>0. /\ (p \in uci) = DeviceOn(p)
      /\ \A i \in DOMAIN wire : wire[i] # <<>> => wire[i][1] # p
  BY DEF Settled
<1>1. CASE UNCHANGED <<relay, wire>>
  BY <1>0, <1>1 DEF Settled, DeviceOn
<1>2. ASSUME NEW r \in Run, Flush(r) PROVE Settled(p)'
  <2>1. \A i \in DOMAIN wire' : i \in DOMAIN wire /\ wire'[i] = wire[i]
    BY <1>2 DEF Flush
  <2> QED
    BY <1>0, <1>2, <2>1 DEF Flush, Settled, DeviceOn
<1>3. ASSUME NEW r \in Run, Send(r) PROVE Settled(p)'
  <2>0. ~Holds(r, p)'
    OBVIOUS
  <2>1. port[r] # p /\ wire' = Append(wire, <<port[r], Real(r)>>) /\ UNCHANGED <<relay, uci>>
    BY <1>3, <2>0 DEF Send, Holds
  <2>2. ASSUME NEW i \in DOMAIN wire', wire'[i] # <<>> PROVE wire'[i][1] # p
    <3>1. CASE i = Len(wire) + 1
      <4>1. wire'[i] = <<port[r], Real(r)>>
        BY <2>1, <3>1
      <4> QED
        BY <2>1, <4>1
    <3>2. CASE i # Len(wire) + 1
      <4>1. i \in DOMAIN wire /\ wire'[i] = wire[i]
        BY <2>1, <2>2, <3>2
      <4> QED
        BY <1>0, <2>2, <4>1
    <3> QED
      BY <3>1, <3>2
  <2> QED
    BY <1>0, <2>1, <2>2 DEF Settled, DeviceOn
<1>4. ASSUME NEW r \in Run, Query(r) PROVE Settled(p)'
  <2>1. wire' = Append(wire, <<>>) /\ UNCHANGED <<relay, uci>>
    BY <1>4 DEF Query
  <2>2. ASSUME NEW i \in DOMAIN wire', wire'[i] # <<>> PROVE wire'[i][1] # p
    <3>1. i \in DOMAIN wire /\ wire'[i] = wire[i]
      BY <2>1, <2>2
    <3> QED
      BY <1>0, <2>2, <3>1
  <2> QED
    BY <1>0, <2>1, <2>2 DEF Settled, DeviceOn
<1>5. CASE Device
  <2>1. 1 \in DOMAIN wire /\ Head(wire) = wire[1]
    BY <1>5 DEF Device
  <2>2. Head(wire) # <<>> => Head(wire)[1] # p
    BY <1>0, <2>1
  <2>3. (p \in relay') <=> (p \in relay)
    BY <1>5, <2>2 DEF Device
  <2>4. \A i \in DOMAIN wire' : i + 1 \in DOMAIN wire /\ wire'[i] = wire[i + 1]
    BY <1>5 DEF Device
  <2> QED
    BY <1>0, <2>3, <2>4 DEF Settled, DeviceOn
<1>6. CASE Unplug
  BY <1>6 DEF Unplug
<1>7. ASSUME NEW r \in Run,
             \/ Start(r) \/ Open(r) \/ OpenFails(r) \/ WriteFails(r) \/ Read(r) \/ ReadTimesOut(r)
             \/ Get(r) \/ GetFails(r) \/ Save(r) \/ SaveFails(r) \/ RunDies(r)
      PROVE  UNCHANGED <<relay, wire>>
  BY <1>7 DEF Start, Open, OpenFails, WriteFails, Read, ReadTimesOut, Get, GetFails, Save,
     SaveFails, RunDies
<1>8. CASE AnswerLate \/ Plug \/ Watch \/ UNCHANGED vars
  BY <1>1, <1>8 DEF AnswerLate, Plug, Watch, vars
<1> QED
  BY <1>1, <1>2, <1>3, <1>4, <1>5, <1>6, <1>7, <1>8 DEF Next

(* A run that ends without a save gives no port out of its hands but in    *)
(* doubt.                                                                  *)
LEMMA EndDoubts ==
  ASSUME TypeOK, NEW r \in Run, NEW p \in Port, p \notin doubt', \A q \in Run : ~Holds(q, p)',
         OpenFails(r) \/ WriteFails(r) \/ ReadTimesOut(r) \/ SaveFails(r) \/ RunDies(r)
  PROVE  p \notin doubt /\ \A q \in Run : ~Holds(q, p)
<1>1. Ended(r, stale)
  BY DEF OpenFails, WriteFails, ReadTimesOut, SaveFails, RunDies
<1>2. \A q \in Run \ {r} : pc'[q] = pc[q] /\ port'[q] = port[q] /\ (q \in cut' <=> q \in cut)
  BY <1>1, EndedLeaves
<1>3. \A q \in Run \ {r} : ~Holds(q, p)
  BY <1>2 DEF Holds
<1>4. ~Holds(r, p) /\ p \notin doubt
  BY DEF OpenFails, WriteFails, ReadTimesOut, SaveFails, RunDies, Holds
<1> QED
  BY <1>3, <1>4

(* A port leaves the hands of a run settled or in doubt.                   *)
LEMMA SettlingKept ==
  TypeOK /\ Undisturbed /\ Doubted /\ Kept /\ Settling /\ [Next]_vars => Settling'
<1> SUFFICES ASSUME TypeOK, Undisturbed, Doubted, Kept, Settling, [Next]_vars,
                    NEW p \in Port, p \notin doubt', \A r \in Run : ~Holds(r, p)'
             PROVE  Settled(p)'
  BY DEF Settling
<1>1. ASSUME NEW r \in Run, Save(r) PROVE Settled(p)'
  <2>0. Ended(r, Outdated({port[r]} \cup stale[r]))
    BY <1>1 DEF Save
  <2>1. pc[r] = "save" /\ uci' = mask[r] /\ UNCHANGED <<relay, wire>>
    BY <1>1 DEF Save, lineVars
  <2>2. CASE port[r] = p
    <3>1. r \notin crossed
      BY <1>1, <2>2 DEF Save
    <3>2. Switched(r) /\ \A i \in DOMAIN wire : wire[i] # <<>> => wire[i][1] # p
      BY <2>1, <2>2, <3>1 DEF Undisturbed, Alone
    <3>3. (p \in mask[r]) = (act[r] = "On")
      BY <2>1, <2>2 DEF Kept
    <3> QED
      BY <2>1, <2>2, <3>2, <3>3 DEF Settled, Switched, DeviceOn
  <2>3. CASE port[r] # p
    <3>1. p \notin doubt /\ p \notin stale[r]
      BY <1>1, <2>3 DEF Save
    <3>2. \A q \in Run : ~Holds(q, p)
      <4>1. \A q \in Run \ {r} :
              pc'[q] = pc[q] /\ port'[q] = port[q] /\ (q \in cut' <=> q \in cut)
        BY <2>0, EndedLeaves
      <4> QED
        BY <2>3, <4>1 DEF Holds
    <3>3. Settled(p)
      BY <3>1, <3>2 DEF Settling
    <3>4. uci # Gone
      BY <3>1 DEF Doubted
    <3>5. (p \in mask[r]) = (p \in uci)
      BY <2>1, <2>3, <3>1, <3>4 DEF Kept, Known
    <3> QED
      BY <2>1, <3>3, <3>5 DEF Settled, DeviceOn
  <2> QED
    BY <2>2, <2>3
<1>2. ASSUME NEW r \in Run,
             OpenFails(r) \/ WriteFails(r) \/ ReadTimesOut(r) \/ SaveFails(r) \/ RunDies(r)
      PROVE  Settled(p)'
  <2>1. uci' = uci /\ plugged' = plugged
    BY <1>2 DEF OpenFails, WriteFails, ReadTimesOut, SaveFails, RunDies, lineVars
  <2>2. p \notin doubt /\ \A q \in Run : ~Holds(q, p)
    BY <1>2, EndDoubts
  <2> QED
    BY <2>1, <2>2, SettledKept DEF Settling
<1>3. ASSUME NEW r \in Run,
             \/ Start(r) \/ Open(r) \/ Flush(r) \/ Send(r) \/ Query(r) \/ Read(r) \/ Get(r)
             \/ GetFails(r)
      PROVE  Settled(p)'
  <2> USE DEF TypeOK, Goto, runVars, lineVars, histories
  <2>1. p \notin doubt /\ UNCHANGED <<uci, plugged>>
    BY <1>3 DEF Start, Open, Flush, Send, Query, Read, Get, GetFails
  <2>2. ASSUME NEW q \in Run, q # r PROVE ~Holds(q, p)
    <3>1. pc'[q] = pc[q] /\ port'[q] = port[q] /\ (q \in cut' <=> q \in cut)
      BY <1>3, <2>2 DEF Start, Open, Flush, Send, Query, Read, Get, GetFails
    <3> QED
      BY <3>1 DEF Holds
  <2>3. ~Holds(r, p)
    <3>1. CASE Query(r) \/ Read(r) \/ Get(r) \/ GetFails(r)
      <4>1. port' = port /\ cut' = cut /\ pc'[r] \in {"query", "read", "get", "save"}
        BY <3>1 DEF Query, Read, Get, GetFails
      <4> QED
        BY <4>1 DEF Holds
    <3>2. CASE Start(r) \/ Open(r) \/ Flush(r) \/ Send(r)
      BY <3>2 DEF Start, Open, Flush, Send, Holds
    <3> QED
      BY <1>3, <3>1, <3>2
  <2>4. \A q \in Run : ~Holds(q, p)
    BY <2>2, <2>3
  <2> QED
    BY <2>1, <2>4, SettledKept DEF Settling
<1>4. CASE Device \/ AnswerLate \/ UNCHANGED vars
  <2>1. UNCHANGED <<pc, port, cut, doubt, uci, plugged>>
    BY <1>4 DEF Device, AnswerLate, vars, runVars, lineVars, histories
  <2>2. \A r \in Run : ~Holds(r, p)
    BY <2>1 DEF Holds
  <2> QED
    BY <2>1, <2>2, SettledKept DEF Settling
<1>5. CASE Unplug \/ Plug \/ Watch
  <2>1. doubt' = Port
    BY <1>5 DEF Unplug, Plug, Watch, Doubted, histories
  <2> QED
    BY <2>1
<1> QED
  BY <1>1, <1>2, <1>3, <1>4, <1>5 DEF Next

(* However many commands run at once, are killed at whatever step or fail, *)
(* and through timeouts and unplugging, the mask is right for every port   *)
(* that is not in doubt.                                                   *)
THEOREM MaskRight == Spec => []MaskMirrors
<1>1. Init => Closed /\ Doubted /\ Kept
  BY NotGone DEF Init, Closed, Doubted, Kept, OnPorts, Masks
<1>2. Init => Settling
  <2>1. \A p \in Port : (p \in OnPorts) <=> DeviceOn(p)
    BY DEF OnPorts
  <2>2. ASSUME Init PROVE uci = OnPorts /\ DOMAIN wire = {}
    BY <2>2 DEF Init
  <2>3. \A p \in Port : DeviceOn(p) \in BOOLEAN
    BY DEF DeviceOn
  <2> QED
    BY <2>1, <2>2, <2>3 DEF Settling, Settled
<1>3. Settling => MaskMirrors
  BY DEF Settling, Settled, Holds, MaskMirrors
<1> QED
  BY <1>1, <1>2, <1>3, InitAlone, InitType, NextType, ClosedKept, NextAlone, DoubtedKept,
     KeptKept, SettlingKept, PTL DEF Spec
=============================================================================
