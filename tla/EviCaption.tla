----------------------------- MODULE EviCaption -----------------------------
(***************************************************************************)
(* The caption library libevi (package libevi, evi_caption.c and           *)
(* evi_charge_router.c): threads of several processes draw whole screens   *)
(* on the one panel.  Within a process evi_lock serialises the calls, and  *)
(* two caches - ui for the seven captions of evi_caption.c, u2 for the     *)
(* eight of evi_charge_router.c - let a call return without drawing.       *)
(***************************************************************************)
EXTENDS Integers

CONSTANTS
  Thread, Process, ProcessOf,
  Caption,  \* the calls made: [fn, a, b : texts, n : the int argument]
  None

(* A text is one of these; "long" does not fit a[48], "lon" is what fits.  *)
Texts == {"NULL", "", "x", "lon", "long"}

(* Mutant: the text is kept whole.                                         *)
KeptWhole(t) == IF t = "NULL" THEN "" ELSE t

(* keep(): snprintf into a[48].                                            *)
Kept(t) == CASE t = "NULL" -> "" [] t = "long" -> "lon" [] OTHER -> t
Visible(t) == IF t = "NULL" THEN "" ELSE t

UiFn == {"initial", "systemLoading", "info1", "info2", "info3", "info4", "standby"}
U2Fn == {"preparing", "authWaiting", "plugInWaiting", "serverConn", "serverConnFailed",
         "serverConnLost", "getMValue", "dispComplete"}

Families == {"ui", "u2"}   \* evi_caption.c and evi_charge_router.c, by their caches

ASSUME CaptionAssumption ==
  /\ ProcessOf \in [Thread -> Process]
  /\ Caption # {}
  /\ Caption \subseteq [fn : UiFn \cup U2Fn, a : Texts, b : Texts, n : Int]
  /\ None \notin Thread /\ None \notin Caption /\ None \notin Process \X Families
  /\ \A k \in Caption : k.fn \notin {"info1", "info2", "info3", "info4", "getMValue", "dispComplete"}
                          => k.a = "NULL" /\ k.b = "NULL"

(* The screen's id: the two that alternate by the second have one per      *)
(* language.                                                               *)
Id(k) == IF k.fn \in {"authWaiting", "plugInWaiting"}
           THEN <<k.fn, IF k.n % 2 = 0 THEN "ZH" ELSE "EN">>
           ELSE <<k.fn, "">>

Extra(k) == IF k.fn = "standby" THEN k.n ELSE 0

(* What the call draws.  evi_charge_get_mvalue and _disp_complete are      *)
(* empty; standby only asks whether there is a delay.                      *)
Drawing(k) ==
  CASE k.fn \in {"info1", "info2", "info3", "info4"} -> <<Id(k), Visible(k.a), Visible(k.b)>>
    [] k.fn \in {"getMValue", "dispComplete"} -> <<<<"empty", "">>, "", "">>
    [] k.fn = "standby" -> <<Id(k), IF k.n > 0 THEN "delay" ELSE "", "">>
    [] OTHER -> <<Id(k), "", "">>

Family(k) == IF k.fn \in UiFn THEN "ui" ELSE "u2"

(* The caches start with id 0, which no screen has; ui.inited adds nothing.*)
NoKey == [id |-> <<"none", "">>, a |-> "", b |-> "", extra |-> 0]

(* strcmp of an argument with a kept text; NULL equals nothing kept.       *)
Same(t, kept) == t # "NULL" /\ t = kept

(* Mutant: the texts are left out of the comparison.                       *)
NeedById(k, key) == key.id # Id(k) \/ key.extra # Extra(k)

(* need() and need2().                                                     *)
Need(k, key) ==
  \/ key.id # Id(k)
  \/ ~Same(k.a, key.a) \/ ~Same(k.b, key.b)
  \/ key.extra # Extra(k)

Key(k) == [id |-> Id(k), a |-> Kept(k.a), b |-> Kept(k.b), extra |-> Extra(k)]

VARIABLES
  pc,      \* where each thread is
  call,    \* the caption it was asked for
  lock,    \* g_evi_mtx of each process
  cache,   \* ui and u2 of each process
  screen,  \* every drawing since the panel was last cleared
  drawn,   \* history: the drawing each cache stands for
  owner,   \* history: the process and the file whose caption was the last to
           \*   clear the panel, None if another process was about to draw on it
  last     \* history: the caption whose call was the last to end, of each process

vars == <<pc, call, lock, cache, screen, drawn, owner, last>>

Keys == [id : {Id(k) : k \in Caption} \cup {NoKey.id},
         a : Texts \ {"NULL", "long"}, b : Texts \ {"NULL", "long"}, extra : Int]
NoDrawing == <<<<"none", "">>, "", "">>
Drawings == {Drawing(k) : k \in Caption}

TypeOK ==
  /\ pc \in [Thread -> {"idle", "wait", "check", "clear", "draw", "keep", "unlock"}]
  /\ call \in [Thread -> Caption]
  /\ lock \in [Process -> Thread \cup {None}]
  /\ cache \in [Process -> [Families -> Keys]]
  /\ screen \subseteq Drawings
  /\ drawn \in [Process -> [Families -> Drawings \cup {NoDrawing}]]
  /\ owner \in (Process \X Families) \cup {None}
  /\ last \in [Process -> Caption \cup {None}]

(* Stands for no call.                                                     *)
NoCall == CHOOSE k \in Caption : TRUE

Init ==
  /\ pc = [t \in Thread |-> "idle"]
  /\ call = [t \in Thread |-> NoCall]
  /\ lock = [p \in Process |-> None]
  /\ cache = [p \in Process |-> [f \in Families |-> NoKey]]
  /\ screen = {}
  /\ drawn = [p \in Process |-> [f \in Families |-> NoDrawing]]
  /\ owner = None /\ last = [p \in Process |-> None]

Goto(t, l) == pc' = [pc EXCEPT ![t] = l]
Of(t) == ProcessOf[t]

Call(t) ==
  /\ pc[t] = "idle"
  /\ \E k \in Caption : call' = [call EXCEPT ![t] = k]
  /\ Goto(t, "wait")
  /\ UNCHANGED <<lock, cache, screen, drawn, owner, last>>

(* Mutant: the mutex does not exclude.                                     *)
LockNever(t) ==
  /\ pc[t] = "wait"
  /\ lock' = [lock EXCEPT ![Of(t)] = t]
  /\ Goto(t, "check")
  /\ UNCHANGED <<call, cache, screen, drawn, owner, last>>

(* evi_lock()                                                              *)
Lock(t) ==
  /\ pc[t] = "wait" /\ lock[Of(t)] = None
  /\ lock' = [lock EXCEPT ![Of(t)] = t]
  /\ Goto(t, "check")
  /\ UNCHANGED <<call, cache, screen, drawn, owner, last>>

Check(t) ==
  /\ pc[t] = "check"
  /\ Goto(t, IF Need(call[t], cache[Of(t)][Family(call[t])]) THEN "clear" ELSE "unlock")
  /\ UNCHANGED <<call, lock, cache, screen, drawn, owner, last>>

(* begin().  Nothing keeps processes from drawing at the same time.        *)
Clear(t) ==
  /\ pc[t] = "clear"
  /\ screen' = {}
  /\ owner' = IF \E u \in Thread : Of(u) # Of(t) /\ pc[u] = "draw" THEN None
              ELSE <<Of(t), Family(call[t])>>
  /\ Goto(t, "draw")
  /\ UNCHANGED <<call, lock, cache, drawn, last>>

Draw(t) ==
  /\ pc[t] = "draw"
  /\ screen' = screen \cup {Drawing(call[t])}
  /\ Goto(t, "keep")
  /\ UNCHANGED <<call, lock, cache, drawn, owner, last>>

(* Mutant: keep2 forgets the texts.                                        *)
KeepId(t) ==
  LET k == call[t]
  IN /\ pc[t] = "keep"
     /\ cache' = [cache EXCEPT ![Of(t)][Family(k)] = [NoKey EXCEPT !.id = Id(k)]]
     /\ drawn' = [drawn EXCEPT ![Of(t)][Family(k)] = Drawing(k)]
     /\ Goto(t, "unlock")
     /\ UNCHANGED <<call, lock, screen, owner, last>>

(* keep() and keep2()                                                      *)
Keep(t) ==
  LET k == call[t]
  IN /\ pc[t] = "keep"
     /\ cache' = [cache EXCEPT ![Of(t)][Family(k)] = Key(k)]
     /\ drawn' = [drawn EXCEPT ![Of(t)][Family(k)] = Drawing(k)]
     /\ Goto(t, "unlock")
     /\ UNCHANGED <<call, lock, screen, owner, last>>

Unlock(t) ==
  /\ pc[t] = "unlock"
  /\ lock' = [lock EXCEPT ![Of(t)] = None]
  /\ last' = [last EXCEPT ![Of(t)] = call[t]]
  /\ call' = [call EXCEPT ![t] = NoCall]
  /\ Goto(t, "idle")
  /\ UNCHANGED <<cache, screen, drawn, owner>>

(* The process is killed, perhaps in the middle of a screen, and started   *)
(* again with empty caches.                                                *)
Restart(p) ==
  /\ pc' = [t \in Thread |-> IF ProcessOf[t] = p THEN "idle" ELSE pc[t]]
  /\ call' = [t \in Thread |-> IF ProcessOf[t] = p THEN NoCall ELSE call[t]]
  /\ lock' = [lock EXCEPT ![p] = None]
  /\ cache' = [cache EXCEPT ![p] = [f \in Families |-> NoKey]]
  /\ drawn' = [drawn EXCEPT ![p] = [f \in Families |-> NoDrawing]]
  /\ last' = [last EXCEPT ![p] = None]
  /\ UNCHANGED <<screen, owner>>

ThreadStep(t) ==
  Lock(t) \/ Check(t) \/ Clear(t) \/ Draw(t) \/ Keep(t) \/ Unlock(t)

Next ==
  \/ \E t \in Thread : Call(t) \/ ThreadStep(t)
  \/ \E p \in Process : Restart(p)

Spec == Init /\ [][Next]_vars

-----------------------------------------------------------------------------
(* Properties.                                                             *)

Quiet(p) == \A t \in Thread : Of(t) = p => pc[t] \in {"idle", "wait"}

(* When no call is under way the panel shows the caption asked for last,   *)
(* whichever calls of whichever threads the caches cut short.  (Of several *)
(* processes this asks that they show the same.)                           *)
LastCallShown ==
  \A p \in Process :
    (\A q \in Process : Quiet(q)) /\ last[p] # None => screen = {Drawing(last[p])}

(* As far as keep() can tell drawings apart.                               *)
Fitting(d) == <<d[1], Kept(d[2]), Kept(d[3])>>

(* It does, up to what does not fit the cache, unless a caption of the     *)
(* other file or of another process has replaced the one it was, or two    *)
(* processes have drawn at once: as long as that is not so, ui (or u2) is  *)
(* the truth about the panel, whichever calls it has cut short.            *)
ShownWithinFile ==
  \A p \in Process :
    Quiet(p) /\ last[p] # None /\ owner = <<p, Family(last[p])>> =>
      {Fitting(d) : d \in screen} = {Fitting(Drawing(last[p]))}

(* A cache never stands for another screen than the one its process drew   *)
(* last for it: a call that would be cut short asks for that very screen,  *)
(* or for the head of its texts that fits.                                 *)
CacheHonest ==
  \A p \in Process, f \in Families, k \in Caption :
    lock[p] = None /\ Family(k) = f /\ ~Need(k, cache[p][f]) =>
      Fitting(drawn[p][f]) = Drawing(k)

(* Which calls draw again: one that repeats the last of its process draws  *)
(* exactly if a text of it is NULL, as both are in nine captions of the    *)
(* fifteen, or was cut when it was kept.                                   *)
Lost(k) == {k.a, k.b} \cap {"NULL", "long"} # {}

RepeatRule ==
  [][\A t \in Thread :
       Check(t) /\ last[Of(t)] = call[t] => (pc'[t] = "clear" <=> Lost(call[t]))]_vars

(* The same call is not drawn again (libevi_ERRATA.md:3).                  *)
RepeatSkipped == [][\A t \in Thread : ~(Clear(t) /\ last[Of(t)] = call[t])]_vars
=============================================================================
