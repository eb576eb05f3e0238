---------------------------- MODULE DpsCertProofs ----------------------------
(***************************************************************************)
(* Type correctness of DpsCert, and what a call that returns 0 leaves      *)
(* behind: proved for any number of keys and failures.                     *)
(***************************************************************************)
EXTENDS DpsCert, TLAPS

USE DEF File, Content, None, Part, Whole

-----------------------------------------------------------------------------
(* Each step of a call, and each fault, keeps every variable in its type.  *)
LEMMA TypeKept == ASSUME TypeOK, [Next]_vars PROVE TypeOK'
<1> USE DpsAssumption DEF TypeOK
<1>1. CASE Begin
  BY <1>1 DEF Begin, Fail
<1>2. CASE Skip
  BY <1>2 DEF Skip
<1>3. CASE Flags
  BY <1>3 DEF Flags
<1>4. CASE GenrsaOpens
  BY <1>4 DEF GenrsaOpens
<1>5. CASE GenrsaEnds
  BY <1>5 DEF GenrsaEnds, MakeKey
<1>6. CASE GenrsaFails
  <2>1. reason' \in BOOLEAN
    BY <1>6 DEF GenrsaFails, Breaks
  <2>2. fails' \in 0 .. MaxFails
    BY <1>6 DEF GenrsaFails, Breaks, Fault
  <2>3. file' \in [File -> Content] /\ listed' \in BOOLEAN
    BY <1>6 DEF GenrsaFails, Breaks
  <2> QED
    BY <1>6, <2>1, <2>2, <2>3 DEF GenrsaFails, Breaks, Fail
<1>7. CASE Req
  BY <1>7 DEF Req, Makes
<1>8. CASE ReqFails
  <2>1. reason' \in BOOLEAN
    BY <1>8 DEF ReqFails, Breaks
  <2>2. fails' \in 0 .. MaxFails
    BY <1>8 DEF ReqFails, Breaks, Fault
  <2>3. file' \in [File -> Content] /\ listed' \in BOOLEAN
    BY <1>8 DEF ReqFails, Breaks
  <2> QED
    BY <1>8, <2>1, <2>2, <2>3 DEF ReqFails, Breaks, Fail
<1>9. CASE Ca
  BY <1>9 DEF Ca, Makes
<1>10. CASE CaFails
  <2>1. reason' \in BOOLEAN
    BY <1>10 DEF CaFails, Breaks
  <2>2. fails' \in 0 .. MaxFails
    BY <1>10 DEF CaFails, Breaks, Fault
  <2>3. file' \in [File -> Content] /\ listed' \in BOOLEAN
    BY <1>10 DEF CaFails, Breaks
  <2> QED
    BY <1>10, <2>1, <2>2, <2>3 DEF CaFails, Breaks, Fail
<1>11. CASE X509
  BY <1>11 DEF X509
<1>12. CASE X509Fails
  <2>1. reason' \in BOOLEAN
    BY <1>12 DEF X509Fails
  <2>2. fails' \in 0 .. MaxFails
    BY <1>12 DEF X509Fails, Fault
  <2> QED
    BY <1>12, <2>1, <2>2 DEF X509Fails
<1>13. CASE Cat
  BY <1>13 DEF Cat, Makes
<1>14. CASE CatFails
  <2>1. reason' \in BOOLEAN
    BY <1>14 DEF CatFails, Breaks
  <2>2. fails' \in 0 .. MaxFails
    BY <1>14 DEF CatFails, Breaks, Fault
  <2>3. file' \in [File -> Content] /\ listed' \in BOOLEAN
    BY <1>14 DEF CatFails, Breaks
  <2> QED
    BY <1>14, <2>1, <2>2, <2>3 DEF CatFails, Breaks, Fail
<1>15. CASE Clear
  BY <1>15 DEF Clear
<1>16. CASE Sync
  BY <1>16 DEF Sync, Returns
<1>17. CASE SyncFails
  BY <1>17 DEF SyncFails, Returns, Fault
<1>18. CASE Reset
  BY <1>18 DEF Reset, Fail, NoFiles
<1>19. CASE ResetFails
  BY <1>19 DEF ResetFails, Fail, Fault
<1>20. CASE Kill
  <2>1. orphan' \in BOOLEAN /\ reason' \in BOOLEAN /\ listed' \in BOOLEAN
    BY <1>20 DEF Kill
  <2>2. struck' \subseteq Faults
    BY <1>20 DEF Kill
  <2>3. fails' \in 0 .. MaxFails
    BY <1>20 DEF Kill, Fault
  <2> QED
    BY <1>20, <2>1, <2>2, <2>3 DEF Kill
<1>21. CASE OrphanEnds
  <2>1. orphan' \in BOOLEAN
    BY <1>21 DEF OrphanEnds
  <2>2. made' \in 0 .. MaxKeys /\ file' \in [File -> Content]
    BY <1>21 DEF OrphanEnds, MakeKey
  <2> QED
    BY <1>21, <2>1, <2>2 DEF OrphanEnds
<1>22. CASE PowerLoss
  <2>1. orphan' \in BOOLEAN /\ listed' \in BOOLEAN
    BY <1>22 DEF PowerLoss
  <2>2. fails' \in 0 .. MaxFails
    BY <1>22 DEF PowerLoss, Fault
  <2> QED
    BY <1>22, <2>1, <2>2 DEF PowerLoss
<1>23. CASE Provision
  BY <1>23 DEF Provision
<1>24. CASE UNCHANGED vars
  BY <1>24 DEF vars
<1> QED
  BY <1>1, <1>2, <1>3, <1>4, <1>5, <1>6, <1>7, <1>8, <1>9, <1>10, <1>11, <1>12, <1>13,
     <1>14, <1>15, <1>16, <1>17, <1>18, <1>19, <1>20, <1>21, <1>22, <1>23,
     <1>24 DEF Next

(* A device that has no certificates yet is well typed.                    *)
LEMMA InitTyped == Init => TypeOK
<1> SUFFICES ASSUME Init PROVE TypeOK
  OBVIOUS
<1>1. /\ orphan \in BOOLEAN /\ regid \in BOOLEAN /\ synced \in BOOLEAN
      /\ listed \in BOOLEAN /\ reason \in BOOLEAN /\ struck \subseteq Faults
  BY DEF Init
<1>2. file \in [File -> Content] /\ flash \in [File -> Content]
  BY DEF Init, NoFiles
<1>3. made \in 0 .. MaxKeys /\ fails \in 0 .. MaxFails
  BY DpsAssumption DEF Init
<1>4. pc = "off" /\ change \in {0, 1} /\ result = "none"
  BY DEF Init
<1> QED
  BY <1>1, <1>2, <1>3, <1>4 DEF TypeOK

(* Every variable of a run of dps_generate_certificates has its type.      *)
THEOREM TypeCorrect == Spec => []TypeOK
<1>1. Init => TypeOK
  BY InitTyped
<1>2. TypeOK /\ [Next]_vars => TypeOK'
  BY TypeKept
<1> QED
  BY <1>1, <1>2, PTL DEF Spec

-----------------------------------------------------------------------------
(* While no openssl has outlived its parent and cat has not failed, a call *)
(* has at each of its commands the files the commands before it made, and, *)
(* while sync has not failed either, what a completed call left is on      *)
(* flash.                                                                  *)
Made ==
  /\ ~orphan
  /\ pc = "ca" => Whole(file["csr"]) /\ file["csr"] = file["key"]
  /\ pc \in {"x509", "cat"} => Whole(file["cert"]) /\ file["cert"] = file["key"]
  /\ pc \in {"clear", "sync"} => Usable

Kept ==
  synced => /\ pc = "off"
            /\ Usable
            /\ flash["key"] = file["key"] /\ flash["chain"] = file["chain"]

Sound ==
  /\ struck \subseteq {"power", "sync"} => Made
  /\ struck \subseteq {"power"} => Kept

(* A step of Next keeps Made and Kept, or is one of those faults.          *)
LEMMA FilesKept ==
  ASSUME TypeOK, Sound, [Next]_vars
  PROVE  Sound'
<1> USE DEF TypeOK, Sound, Made, Kept, Usable
<1>1. CASE Begin
  BY <1>1 DEF Begin, Fail, Exist
<1>2. CASE Skip
  BY <1>2 DEF Skip
<1>3. CASE Flags
  BY <1>3 DEF Flags
<1>4. CASE GenrsaOpens
  BY <1>4 DEF GenrsaOpens
<1>5. CASE GenrsaEnds
  BY <1>5 DEF GenrsaEnds, MakeKey
<1>6. CASE GenrsaFails
  BY <1>6 DEF GenrsaFails, Breaks, Fail
<1>7. CASE Req
  BY <1>7 DEF Req, Makes
<1>8. CASE ReqFails
  BY <1>8 DEF ReqFails, Breaks, Fail
<1>9. CASE Ca
  BY <1>9 DEF Ca, Makes
<1>10. CASE CaFails
  BY <1>10 DEF CaFails, Breaks, Fail
<1>11. CASE X509
  BY <1>11 DEF X509
<1>12. CASE X509Fails
  BY <1>12 DEF X509Fails
<1>13. CASE Cat
  BY <1>13 DEF Cat, Makes
<1>14. CASE CatFails
  BY <1>14 DEF CatFails, Breaks
<1>15. CASE Clear
  BY <1>15 DEF Clear
<1>16. CASE Sync
  BY <1>16 DEF Sync, Returns
<1>17. CASE SyncFails
  BY <1>17 DEF SyncFails, Returns
<1>18. CASE Reset
  BY <1>18 DEF Reset, Fail
<1>19. CASE ResetFails
  BY <1>19 DEF ResetFails, Fail
<1>20. CASE Kill
  BY <1>20 DEF Kill
<1>21. CASE OrphanEnds
  BY <1>21 DEF OrphanEnds
<1>22. CASE PowerLoss
  BY <1>22 DEF PowerLoss
<1>23. CASE Provision
  BY <1>23 DEF Provision
<1>24. CASE UNCHANGED vars
  BY <1>24 DEF vars
<1> QED
  BY <1>1, <1>2, <1>3, <1>4, <1>5, <1>6, <1>7, <1>8, <1>9, <1>10, <1>11, <1>12, <1>13,
     <1>14, <1>15, <1>16, <1>17, <1>18, <1>19, <1>20, <1>21, <1>22, <1>23,
     <1>24 DEF Next

(* What a call has generated and reported with 0 outlasts every power      *)
(* loss: dps_generate_certificates syncs before it returns.                *)
THEOREM Durable == Spec => []SuccessIsDurable
<1>1. Init => TypeOK /\ Sound
  BY InitTyped DEF Init, NoFiles, Sound, Made, Kept
<1>2. TypeOK /\ Sound /\ [Next]_vars => (TypeOK /\ Sound)'
  BY TypeKept, FilesKept
<1>3. TypeOK /\ Sound => SuccessIsDurable
  BY DEF Sound, Kept, SuccessIsDurable
<1> QED
  BY <1>1, <1>2, <1>3, PTL DEF Spec

-----------------------------------------------------------------------------
(* Without power loss a chain is there only as the end of a call that got  *)
(* that far, and stays with its key from then on.                          *)
Chained ==
  struck \subseteq {"sync"} =>
    /\ file["chain"] # None => Usable /\ pc \in {"off", "clear", "sync"}
    /\ pc # "off" => result = "none"
    /\ result = "ok" => Usable

(* A step of Next keeps Chained.                                           *)
LEMMA ChainKept ==
  ASSUME TypeOK, Sound, Chained, [Next]_vars
  PROVE  Chained'
<1> USE DEF TypeOK, Sound, Made, Chained, Usable
<1>1. CASE Begin
  BY <1>1 DEF Begin, Fail, Exist
<1>2. CASE Skip
  BY <1>2 DEF Skip, Exist
<1>3. CASE Flags
  BY <1>3 DEF Flags
<1>4. CASE GenrsaOpens
  BY <1>4 DEF GenrsaOpens
<1>5. CASE GenrsaEnds
  BY <1>5 DEF GenrsaEnds, MakeKey
<1>6. CASE GenrsaFails
  BY <1>6 DEF GenrsaFails, Breaks, Fail
<1>7. CASE Req
  BY <1>7 DEF Req, Makes
<1>8. CASE ReqFails
  BY <1>8 DEF ReqFails, Breaks, Fail
<1>9. CASE Ca
  BY <1>9 DEF Ca, Makes
<1>10. CASE CaFails
  BY <1>10 DEF CaFails, Breaks, Fail
<1>11. CASE X509
  BY <1>11 DEF X509
<1>12. CASE X509Fails
  BY <1>12 DEF X509Fails
<1>13. CASE Cat
  BY <1>13 DEF Cat, Makes
<1>14. CASE CatFails
  BY <1>14 DEF CatFails, Breaks
<1>15. CASE Clear
  BY <1>15 DEF Clear
<1>16. CASE Sync
  BY <1>16 DEF Sync, Returns
<1>17. CASE SyncFails
  BY <1>17 DEF SyncFails, Returns
<1>18. CASE Reset
  BY <1>18 DEF Reset, Fail, NoFiles
<1>19. CASE ResetFails
  BY <1>19 DEF ResetFails, Fail
<1>20. CASE Kill
  BY <1>20 DEF Kill
<1>21. CASE OrphanEnds
  BY <1>21 DEF OrphanEnds
<1>22. CASE PowerLoss
  BY <1>22 DEF PowerLoss
<1>23. CASE Provision
  BY <1>23 DEF Provision
<1>24. CASE UNCHANGED vars
  BY <1>24 DEF vars
<1> QED
  BY <1>1, <1>2, <1>3, <1>4, <1>5, <1>6, <1>7, <1>8, <1>9, <1>10, <1>11, <1>12, <1>13,
     <1>14, <1>15, <1>16, <1>17, <1>18, <1>19, <1>20, <1>21, <1>22, <1>23,
     <1>24 DEF Next

(* However many commands fail and calls are killed, a call that returns 0  *)
(* leaves a key and the chain for it, unless cat has failed, an openssl    *)
(* has outlived its parent or the power has gone.                          *)
THEOREM UsableCertificates == Spec => []SuccessMeansUsable
<1>1. Init => TypeOK /\ Sound /\ Chained
  BY InitTyped DEF Init, NoFiles, Sound, Made, Kept, Chained
<1>2. TypeOK /\ Sound /\ Chained /\ [Next]_vars => (TypeOK /\ Sound /\ Chained)'
  BY TypeKept, FilesKept, ChainKept
<1>3. TypeOK /\ Sound /\ Chained => SuccessMeansUsable
  BY DEF Chained, SuccessMeansUsable
<1> QED
  BY <1>1, <1>2, <1>3, PTL DEF Spec

-----------------------------------------------------------------------------
(* At each of its commands a call has what the command needs, whatever has *)
(* happened: an openssl that outlived another call leaves a whole key, and *)
(* the index is new.                                                       *)
Supplied ==
  /\ pc = "req" => Whole(file["key"])
  /\ pc \in {"genrsa", "keygen", "req", "ca"} => ~listed
  /\ pc = "ca" => Whole(file["csr"])
  /\ pc = "x509" => Whole(file["cert"])
  /\ pc = "reset" => reason
  /\ OwnFailuresOnly

(* A step of Next keeps Supplied.                                          *)
LEMMA SuppliedKept ==
  ASSUME TypeOK, Supplied, [Next]_vars
  PROVE  Supplied'
<1> USE DEF TypeOK, Supplied, OwnFailuresOnly
<1>1. CASE Begin
  BY <1>1 DEF Begin, Fail
<1>2. CASE Skip
  BY <1>2 DEF Skip
<1>3. CASE Flags
  BY <1>3 DEF Flags
<1>4. CASE GenrsaOpens
  BY <1>4 DEF GenrsaOpens
<1>5. CASE GenrsaEnds
  BY <1>5 DEF GenrsaEnds, MakeKey
<1>6. CASE GenrsaFails
  BY <1>6 DEF GenrsaFails, Breaks, Fail
<1>7. CASE Req
  BY <1>7 DEF Req, Makes
<1>8. CASE ReqFails
  BY <1>8 DEF ReqFails, Breaks, Fail
<1>9. CASE Ca
  BY <1>9 DEF Ca, Makes
<1>10. CASE CaFails
  BY <1>10 DEF CaFails, Breaks, Fail
<1>11. CASE X509
  BY <1>11 DEF X509
<1>12. CASE X509Fails
  BY <1>12 DEF X509Fails
<1>13. CASE Cat
  BY <1>13 DEF Cat, Makes
<1>14. CASE CatFails
  BY <1>14 DEF CatFails, Breaks
<1>15. CASE Clear
  BY <1>15 DEF Clear
<1>16. CASE Sync
  BY <1>16 DEF Sync, Returns
<1>17. CASE SyncFails
  BY <1>17 DEF SyncFails, Returns
<1>18. CASE Reset
  BY <1>18 DEF Reset, Fail
<1>19. CASE ResetFails
  BY <1>19 DEF ResetFails, Fail
<1>20. CASE Kill
  BY <1>20 DEF Kill
<1>21. CASE OrphanEnds
  <2>1. Whole(file'["key"])
    BY <1>21, DpsAssumption DEF OrphanEnds, MakeKey
  <2>2. \A f \in {"csr", "cert"} : file'[f] = file[f]
    BY <1>21 DEF OrphanEnds, MakeKey
  <2> QED
    BY <1>21, <2>1, <2>2 DEF OrphanEnds
<1>22. CASE PowerLoss
  BY <1>22 DEF PowerLoss
<1>23. CASE Provision
  BY <1>23 DEF Provision
<1>24. CASE UNCHANGED vars
  BY <1>24 DEF vars
<1> QED
  BY <1>1, <1>2, <1>3, <1>4, <1>5, <1>6, <1>7, <1>8, <1>9, <1>10, <1>11, <1>12, <1>13,
     <1>14, <1>15, <1>16, <1>17, <1>18, <1>19, <1>20, <1>21, <1>22, <1>23,
     <1>24 DEF Next

(* Whatever earlier calls, an openssl that outlived one and power losses   *)
(* have left, a call fails only for a reason of its own.                   *)
THEOREM RetriesWork == Spec => []OwnFailuresOnly
<1>1. Init => TypeOK /\ Supplied
  BY InitTyped DEF Init, Supplied, OwnFailuresOnly
<1>2. TypeOK /\ Supplied /\ [Next]_vars => (TypeOK /\ Supplied)'
  BY TypeKept, SuppliedKept
<1>3. Supplied => OwnFailuresOnly
  BY DEF Supplied
<1> QED
  BY <1>1, <1>2, <1>3, PTL DEF Spec
=============================================================================
