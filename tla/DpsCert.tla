------------------------------- MODULE DpsCert -------------------------------
(***************************************************************************)
(* dps_generate_certificates (package azureiotd, dps_certificate.c): a     *)
(* chain of openssl commands leaves a key, a request, a certificate and    *)
(* the full chain in files, and nothing is generated when the key and the  *)
(* chain exist.  Every start of enhanced_main, by whoever starts it, looks *)
(* for them and calls at most once.  A command may fail, the process may   *)
(* be killed between any two of them, and the power may go before the      *)
(* files are on flash; one process at a time.                              *)
(***************************************************************************)
EXTENDS Integers

CONSTANTS
  Faults,   \* which of "cat", "sync", "orphan" and "power" may happen
  MaxKeys,  \* bound: keys made
  MaxFails  \* bound: commands that fail, deaths and power losses

ASSUME DpsAssumption ==
  /\ Faults \subseteq {"cat", "sync", "orphan", "power"}
  /\ MaxKeys \in Nat /\ MaxFails \in Nat

File == {"key", "csr", "cert", "chain"}

(* A whole file belongs to one key, the nth made.  A command that fails    *)
(* leaves what was there or, once it has opened its output, a part.        *)
None == 0
Part == -1
Content == {None, Part} \cup 1 .. MaxKeys
Whole(x) == x > 0

VARIABLES
  pc,      \* the command that comes next
  file,    \* what each file contains for those who read it
  flash,   \* what it contains on flash
  made,    \* number of keys made
  orphan,  \* openssl genrsa outlives the process that started it
  regid,   \* uci's system.@system[0].regid is there
  change,  \* uci's AzureKeyChange
  listed,  \* openssl's index.txt lists the device
  result,  \* what the last call returned, or that there was nothing to do
  synced,  \* history: a call has generated the files and reached its end
  struck,  \* history: which of Faults have happened since the last reset
  reason,  \* history: the last call has met no serial number, or a command that
           \* had all it needs and went wrong
  fails

vars == <<pc, file, flash, made, orphan, regid, change, listed, result, synced, struck, reason,
          fails>>

TypeOK ==
  /\ pc \in {"off", "flags", "genrsa", "keygen", "req", "ca", "x509", "cat", "clear", "sync", "reset"}
  /\ file \in [File -> Content] /\ flash \in [File -> Content]
  /\ made \in 0 .. MaxKeys
  /\ orphan \in BOOLEAN /\ regid \in BOOLEAN /\ listed \in BOOLEAN /\ reason \in BOOLEAN
  /\ change \in {0, 1}
  /\ result \in {"none", "ok", "fail"}
  /\ synced \in BOOLEAN
  /\ struck \subseteq Faults
  /\ fails \in 0 .. MaxFails

NoFiles == [f \in File |-> None]

Init ==
  /\ pc = "off"
  /\ file = NoFiles /\ flash = NoFiles
  /\ made = 0 /\ orphan = FALSE /\ regid = TRUE /\ change = 0
  /\ listed = FALSE
  /\ result = "none" /\ synced = FALSE /\ struck = {} /\ reason = FALSE
  /\ fails = 0

Fault == fails < MaxFails /\ fails' = fails + 1

Fail == pc' = "off" /\ result' = "fail"

(* dps_check_certificates_exist: stat() and no more.                       *)
Exist == file["key"] # None /\ file["chain"] # None

-----------------------------------------------------------------------------
(* enhanced_main is started, and finds no serial number, files that exist, *)
(* which it leaves as they are, or something to do.                        *)
Begin ==
  /\ pc = "off"
  /\ \/ ~regid /\ Fail
     \/ regid /\ Exist /\ result' = "ok" /\ UNCHANGED pc
     \/ regid /\ ~Exist /\ pc' = "flags" /\ result' = "none"
  /\ reason' = ~regid
  /\ UNCHANGED <<file, flash, made, orphan, regid, change, listed, synced, struck, fails>>

(* Lines 63-68, for a caller who has not looked before.                    *)
Skip ==
  /\ pc = "off" /\ regid /\ Exist
  /\ change' = 0 /\ result' = "ok" /\ reason' = FALSE
  /\ UNCHANGED <<pc, file, flash, made, orphan, regid, listed, synced, struck, fails>>

(* Mutant: the index of an earlier call is kept.                           *)
FlagsKeepIndex ==
  /\ pc = "flags"
  /\ change' = 1
  /\ pc' = "genrsa"
  /\ UNCHANGED <<file, flash, made, orphan, regid, listed, result, synced, struck, reason, fails>>

(* Lines 73-81: the flag, and a new index.txt.                             *)
Flags ==
  /\ pc = "flags"
  /\ change' = 1
  /\ listed' = FALSE
  /\ pc' = "genrsa"
  /\ UNCHANGED <<file, flash, made, orphan, regid, result, synced, struck, reason, fails>>

(* genrsa truncates its output before it looks for primes.                 *)
GenrsaOpens ==
  /\ pc = "genrsa"
  /\ file' = [file EXCEPT !["key"] = Part]
  /\ pc' = "keygen"
  /\ UNCHANGED <<flash, made, orphan, regid, change, listed, result, synced, struck, reason, fails>>

MakeKey ==
  /\ made < MaxKeys
  /\ made' = made + 1
  /\ file' = [file EXCEPT !["key"] = made + 1]

GenrsaEnds ==
  /\ pc = "keygen"
  /\ MakeKey
  /\ pc' = "req"
  /\ UNCHANGED <<flash, orphan, regid, change, listed, result, synced, struck, reason, fails>>

(* The command at this point writes into f what it makes of from.          *)
Makes(at, f, from, next) ==
  /\ pc = at
  /\ Whole(file[from])
  /\ file' = [file EXCEPT ![f] = file[from]]
  /\ pc' = next
  /\ UNCHANGED <<flash, made, orphan, regid, change, result, synced, struck, reason, fails>>

Req == Makes("req", "csr", "key", "ca") /\ UNCHANGED listed

(* openssl ca refuses a device that its index lists already.               *)
Ca == Makes("ca", "cert", "csr", "x509") /\ ~listed /\ listed' = TRUE

(* It fails: it lacks what it needs, or something goes wrong.              *)
Breaks(at, f, needs) ==
  /\ pc = at
  /\ IF needs THEN Fault ELSE UNCHANGED fails
  /\ reason' = (reason \/ needs)
  /\ \E x \in {file[f], Part} : file' = [file EXCEPT ![f] = x]
  /\ UNCHANGED <<flash, made, orphan, regid, change, synced>>

GenrsaFails == Breaks("keygen", "key", TRUE) /\ Fail /\ UNCHANGED <<listed, struck>>

(* Mutant: the result of openssl req is not looked at.                     *)
ReqUnchecked ==
  /\ Breaks("req", "csr", Whole(file["key"]))
  /\ pc' = "ca" /\ UNCHANGED <<listed, result, struck>>

ReqFails == Breaks("req", "csr", Whole(file["key"])) /\ Fail /\ UNCHANGED <<listed, struck>>

CaFails ==
  /\ Breaks("ca", "cert", Whole(file["csr"]) /\ ~listed)
  /\ Fail
  /\ listed' \in {listed, TRUE}
  /\ UNCHANGED struck

(* openssl x509 -noout reads the certificate.                              *)
X509 ==
  /\ pc = "x509"
  /\ Whole(file["cert"])
  /\ pc' = "cat"
  /\ UNCHANGED <<file, flash, made, orphan, regid, change, listed, result, synced, struck, reason,
                 fails>>

X509Fails ==
  /\ pc = "x509"
  /\ IF Whole(file["cert"]) THEN Fault ELSE UNCHANGED fails
  /\ reason' = (reason \/ Whole(file["cert"]))
  /\ pc' = "reset"
  /\ UNCHANGED <<file, flash, made, orphan, regid, change, listed, result, synced, struck>>

Cat == Makes("cat", "chain", "cert", "clear") /\ UNCHANGED listed

(* Its result is not looked at.                                            *)
CatFails ==
  /\ "cat" \in Faults
  /\ Breaks("cat", "chain", Whole(file["cert"]))
  /\ struck' = struck \cup {"cat"}
  /\ pc' = "clear" /\ UNCHANGED <<listed, result>>

(* Mutant: success is reported and the sync left out.                      *)
ClearUnsynced ==
  /\ pc = "clear"
  /\ change' = 0
  /\ pc' = "off" /\ result' = "ok" /\ synced' = TRUE
  /\ UNCHANGED <<file, flash, made, orphan, regid, listed, struck, reason, fails>>

(* Mutant: the flag is deleted instead of set to 0.                        *)
ClearDeletes ==
  /\ pc = "clear"
  /\ change' = -1
  /\ pc' = "sync"
  /\ UNCHANGED <<file, flash, made, orphan, regid, listed, result, synced, struck, reason, fails>>

(* Lines 144-145.                                                          *)
Clear ==
  /\ pc = "clear"
  /\ change' = 0
  /\ pc' = "sync"
  /\ UNCHANGED <<file, flash, made, orphan, regid, listed, result, synced, struck, reason, fails>>

Returns == pc' = "off" /\ result' = "ok" /\ synced' = TRUE

Sync ==
  /\ pc = "sync"
  /\ flash' = file
  /\ Returns
  /\ UNCHANGED <<file, made, orphan, regid, change, listed, struck, reason, fails>>

(* Its result is not looked at either.                                     *)
SyncFails ==
  /\ pc = "sync" /\ "sync" \in Faults
  /\ Fault /\ struck' = struck \cup {"sync"}
  /\ Returns
  /\ UNCHANGED <<file, flash, made, orphan, regid, change, listed, reason>>

(* firstboot -y && reboot now: the overlay is erased, and with it the      *)
(* files and uci's regid.                                                  *)
Reset ==
  /\ pc = "reset"
  /\ file' = NoFiles /\ flash' = NoFiles
  /\ orphan' = FALSE /\ regid' = FALSE /\ change' = 0 /\ listed' = FALSE
  /\ synced' = FALSE /\ struck' = {}
  /\ Fail
  /\ UNCHANGED <<made, reason, fails>>

(* It erases nothing, and the call returns -1 all the same.                *)
ResetFails ==
  /\ pc = "reset"
  /\ Fault
  /\ Fail
  /\ UNCHANGED <<file, flash, made, orphan, regid, change, listed, synced, struck, reason>>

-----------------------------------------------------------------------------
(* The process is killed; system()'s child may go on.                      *)
Kill ==
  /\ pc # "off"
  /\ Fault
  /\ pc' = "off" /\ result' = "none"
  /\ \/ UNCHANGED <<orphan, struck>>
     \/ /\ "orphan" \in Faults /\ pc = "keygen"
        /\ orphan' = TRUE /\ struck' = struck \cup {"orphan"}
  /\ UNCHANGED <<file, flash, made, regid, change, listed, synced, reason>>

OrphanEnds ==
  /\ orphan
  /\ MakeKey
  /\ orphan' = FALSE
  /\ UNCHANGED <<pc, flash, regid, change, listed, result, synced, struck, reason, fails>>

(* Each file that was not on flash yet is there, is not, or is so in part; *)
(* so it is with index.txt.                                                *)
PowerLoss ==
  /\ "power" \in Faults
  /\ Fault
  /\ flash' \in [File -> Content]
  /\ \A f \in File :
       flash'[f] \in {flash[f], file[f]} \cup (IF flash[f] = file[f] THEN {} ELSE {Part})
  /\ file' = flash'
  /\ listed' \in BOOLEAN
  /\ pc' = "off" /\ result' = "none" /\ orphan' = FALSE
  /\ struck' = struck \cup {"power"}
  /\ UNCHANGED <<made, regid, change, synced, reason>>

(* azureProcess or the factory writes regid.                               *)
Provision ==
  /\ ~regid
  /\ regid' = TRUE
  /\ UNCHANGED <<pc, file, flash, made, orphan, change, listed, result, synced, struck, reason,
                 fails>>

Next ==
  \/ Begin \/ Skip \/ Flags \/ GenrsaOpens \/ GenrsaEnds \/ GenrsaFails
  \/ Req \/ ReqFails \/ Ca \/ CaFails \/ X509 \/ X509Fails
  \/ Cat \/ CatFails \/ Clear \/ Sync \/ SyncFails \/ Reset \/ ResetFails
  \/ Kill \/ OrphanEnds \/ PowerLoss \/ Provision

Spec == Init /\ [][Next]_vars

-----------------------------------------------------------------------------
(* Properties.                                                             *)

Usable == Whole(file["key"]) /\ file["chain"] = file["key"]

(* A call that returns 0, whether it generated or skipped, leaves a whole  *)
(* key and a chain for that key, as long as cat has not failed, no openssl *)
(* has outlived its parent and the power has stayed, whatever commands     *)
(* failed and calls died before: what they left does not make a call skip. *)
SuccessMeansUsable == struck \subseteq {"sync"} /\ result = "ok" => Usable

(* Once a call has generated the files and returned 0, they outlast any    *)
(* power loss and every later call, until the device is reset: the sync of *)
(* line 152 comes before the return; unless it fails.                      *)
SuccessIsDurable == struck \subseteq {"power"} /\ synced => Usable

(* A call fails only for want of a serial number, or because a command of  *)
(* its own went wrong: whatever calls that failed or died, an openssl that *)
(* outlived one, and power losses have left behind, half a key, an index   *)
(* that lists the device, does not stop a later call (lines 73-129).       *)
OwnFailuresOnly == result = "fail" => reason
=============================================================================
