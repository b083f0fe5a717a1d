------------------------------ MODULE PkiProofs ------------------------------
(***************************************************************************)
(* Proofs about Pki, for any number of certificates that the EST server    *)
(* issues, of re-enrollments, crashes and restarts.                        *)
(***************************************************************************)
EXTENDS Pki, TLAPS

\* What is on disk, in memory and in client at each point of the main thread.
PkiInv ==
  /\ TypeOK
  /\ client \in {Unset, Birth, Operational}
  /\ pc \in {"down"} \cup (Boot_pc \ {"main"}) => client = Unset /\ failed = {}
  /\ pc \in {"save", "write", "resave", "rewrite"} => got \in Issued
  /\ pc \in {"enroll", "save"} => pem = Absent
  /\ pc \in {"write", "rewrite"} => pem = Partial
  /\ pc \in {"cacerts", "savecas", "writecas"} => pem # Absent
  /\ pc = "resave" => pem \in Issued
  /\ failed \cap {"enroll", "save"} # {} => client = Birth
  /\ pc = "main" /\ client # Operational => pem \notin Issued
  /\ pc \in {"run", "reenroll", "resave"} /\ pem \in Issued => loaded = pem \/ alarm

\* The half-written file is none of the certificates, and not absent; the
\* three sets of paths.
LEMMA Distinct ==
  /\ Partial \notin Issued
  /\ Absent \notin Issued
  /\ Partial # Absent
  /\ {Unset, Birth, Operational}
       \subseteq [cert : {"unset", "birth", "operational"},
                  ca : {"unset", "birth", "operational"}]
  /\ Unset.cert # "operational" /\ Birth.cert # "operational"
  /\ Operational.cert = "operational"
  /\ Unset # Birth /\ Birth # Operational /\ Unset # Operational
  BY PkiAssumption DEF Partial, Issued, Absent, Unset, Birth, Operational

\* The invariant holds at the first start and from then on.
THEOREM PkiCorrect == Spec => []PkiInv
  <1>1. Init => PkiInv
    <2> SUFFICES ASSUME Init PROVE PkiInv
      OBVIOUS
    <2>1. 0 \in 0 .. MaxCerts
      BY PkiAssumption
    <2>2. TypeOK
      BY <2>1, Distinct DEF Init, TypeOK, Boot_pc, Run_pc
    <2> QED
      BY <2>2, Distinct DEF Init, PkiInv, Boot_pc
  <1>2. PkiInv /\ [Next]_vars => PkiInv'
    <2> SUFFICES ASSUME PkiInv, [Next]_vars PROVE PkiInv'
      OBVIOUS
    <2>0. Issue => issued' \in 0 .. MaxCerts /\ got' \in Issued
      BY PkiAssumption DEF PkiInv, TypeOK, Issue, Issued
    <2> USE Distinct DEF PkiInv, TypeOK, Boot_pc, Run_pc, files
    <2>1. CASE Boot
      BY <2>1 DEF Boot
    <2>2. CASE Found
      BY <2>2 DEF Found, Return
    <2>3. CASE NoBirthCert
      BY <2>3 DEF NoBirthCert
    <2>4. CASE NoOperational
      BY <2>4 DEF NoOperational
    <2>5. CASE EnrollOk
      BY <2>5, <2>0 DEF EnrollOk
    <2>6. CASE EnrollFails
      BY <2>6 DEF EnrollFails, Return
    <2>7. CASE SaveOpen
      BY <2>7 DEF SaveOpen, SaveFails, Return
    <2>8. CASE SaveWrite
      <3>1. pem' \in {Partial} \cup Issued /\ got' = Absent
        BY <2>8 DEF SaveWrite, Written, SaveFails, Return
      <3>2. TypeOK'
        BY <2>8, <3>1 DEF SaveWrite, Written, SaveFails, Return
      <3> QED
        BY <2>8, <3>1, <3>2 DEF SaveWrite, Written, SaveFails, Return
    <2>9. CASE CacertsOk
      BY <2>9 DEF CacertsOk
    <2>10. CASE CacertsFail
      BY <2>10 DEF CacertsFail, Return
    <2>11. CASE SaveCasOpen
      BY <2>11 DEF SaveCasOpen, Return
    <2>12. CASE SaveCasWrite
      BY <2>12 DEF SaveCasWrite, Written, Return
    <2>13. CASE CreateContext
      BY <2>13 DEF CreateContext
    <2>14. CASE Reenroll
      BY <2>14 DEF Reenroll
    <2>15. CASE ReenrollOk
      BY <2>15, <2>0 DEF ReenrollOk
    <2>16. CASE ReenrollFails
      BY <2>16 DEF ReenrollFails
    <2>17. CASE ReenrollOpen
      BY <2>17 DEF ReenrollOpen
    <2>18. CASE ReenrollWrite
      <3>1. pem' \in {Partial} \cup Issued /\ got' = Absent
        BY <2>18 DEF ReenrollWrite, Written
      <3>2. TypeOK'
        BY <2>18, <3>1 DEF ReenrollWrite, Written
      <3> QED
        BY <2>18, <3>1, <3>2 DEF ReenrollWrite, Written
    <2>19. CASE Dies
      BY <2>19 DEF Dies
    <2>20. CASE UNCHANGED vars
      BY <2>20 DEF vars
    <2> QED
      BY <2>1, <2>2, <2>3, <2>4, <2>5, <2>6, <2>7, <2>8, <2>9, <2>10, <2>11,
         <2>12, <2>13, <2>14, <2>15, <2>16, <2>17, <2>18, <2>19, <2>20
         DEF Next, Enrollment, Renewal
  <1> QED
    BY <1>1, <1>2, PTL DEF Spec

\* After a failed enrollment or save the birth certificate is in use
\* (FallsBackToBirth).
THEOREM BirthAfterFailure == Spec => []FallsBackToBirth
  <1>1. PkiInv => FallsBackToBirth
    BY DEF PkiInv, FallsBackToBirth
  <1> QED
    BY <1>1, PkiCorrect, PTL

\* The client uses the certificate on disk, or is about to restart with it
\* (RunsWhatIsSaved).
THEOREM SavedIsRun == Spec => []RunsWhatIsSaved
  <1>1. PkiInv => RunsWhatIsSaved
    BY DEF PkiInv, RunsWhatIsSaved
  <1> QED
    BY <1>1, PkiCorrect, PTL

\* operational.pem, once there, stays (EnrolledOnce).
THEOREM EnrolledForGood == Spec => EnrolledOnce
  <1>1. PkiInv /\ [Next]_vars => [pem # Absent => pem' # Absent]_vars
    <2> SUFFICES ASSUME PkiInv, Next, pem # Absent PROVE pem' # Absent
      OBVIOUS
    <2> USE Distinct DEF PkiInv, files
    <2>1. CASE Boot
      BY <2>1 DEF Boot
    <2>2. CASE Found
      BY <2>2 DEF Found, Return
    <2>3. CASE NoBirthCert
      BY <2>3 DEF NoBirthCert
    <2>4. CASE NoOperational
      BY <2>4 DEF NoOperational
    <2>5. CASE EnrollOk
      BY <2>5 DEF EnrollOk
    <2>6. CASE EnrollFails
      BY <2>6 DEF EnrollFails, Return
    <2>7. CASE SaveOpen
      BY <2>7 DEF SaveOpen, SaveFails, Return
    <2>8. CASE SaveWrite
      BY <2>8 DEF SaveWrite, Written, SaveFails, Return
    <2>9. CASE CacertsOk
      BY <2>9 DEF CacertsOk
    <2>10. CASE CacertsFail
      BY <2>10 DEF CacertsFail, Return
    <2>11. CASE SaveCasOpen
      BY <2>11 DEF SaveCasOpen, Return
    <2>12. CASE SaveCasWrite
      BY <2>12 DEF SaveCasWrite, Written, Return
    <2>13. CASE CreateContext
      BY <2>13 DEF CreateContext
    <2>14. CASE Reenroll
      BY <2>14 DEF Reenroll
    <2>15. CASE ReenrollOk
      BY <2>15 DEF ReenrollOk
    <2>16. CASE ReenrollFails
      BY <2>16 DEF ReenrollFails
    <2>17. CASE ReenrollOpen
      BY <2>17 DEF ReenrollOpen
    <2>18. CASE ReenrollWrite
      BY <2>18 DEF ReenrollWrite, Written
    <2>19. CASE Dies
      BY <2>19 DEF Dies
    <2> QED
      BY <2>1, <2>2, <2>3, <2>4, <2>5, <2>6, <2>7, <2>8, <2>9, <2>10, <2>11,
         <2>12, <2>13, <2>14, <2>15, <2>16, <2>17, <2>18, <2>19
         DEF Next, Enrollment, Renewal
  <1> QED
    BY <1>1, PkiCorrect, PTL DEF Spec, EnrolledOnce

\* A half-written operational.pem, once its writer is gone, stays
\* (HalfWrittenStays).
THEOREM PartialForGood == Spec => HalfWrittenStays
  <1>1. PkiInv /\ [Next]_vars => [LeftPartial => LeftPartial']_vars
    <2> SUFFICES ASSUME PkiInv, Next, LeftPartial PROVE LeftPartial'
      OBVIOUS
    <2> USE Distinct DEF PkiInv, files, LeftPartial
    <2>1. CASE Boot
      BY <2>1 DEF Boot
    <2>2. CASE Found
      BY <2>2 DEF Found, Return
    <2>3. CASE NoBirthCert
      BY <2>3 DEF NoBirthCert
    <2>4. CASE NoOperational
      BY <2>4 DEF NoOperational
    <2>5. CASE EnrollOk
      BY <2>5 DEF EnrollOk
    <2>6. CASE EnrollFails
      BY <2>6 DEF EnrollFails, Return
    <2>7. CASE SaveOpen
      BY <2>7 DEF SaveOpen, SaveFails, Return
    <2>8. CASE SaveWrite
      BY <2>8 DEF SaveWrite, Written, SaveFails, Return
    <2>9. CASE CacertsOk
      BY <2>9 DEF CacertsOk
    <2>10. CASE CacertsFail
      BY <2>10 DEF CacertsFail, Return
    <2>11. CASE SaveCasOpen
      BY <2>11 DEF SaveCasOpen, Return
    <2>12. CASE SaveCasWrite
      BY <2>12 DEF SaveCasWrite, Written, Return
    <2>13. CASE CreateContext
      BY <2>13 DEF CreateContext
    <2>14. CASE Reenroll
      BY <2>14 DEF Reenroll
    <2>15. CASE ReenrollOk
      BY <2>15 DEF ReenrollOk
    <2>16. CASE ReenrollFails
      BY <2>16 DEF ReenrollFails
    <2>17. CASE ReenrollOpen
      BY <2>17 DEF ReenrollOpen
    <2>18. CASE ReenrollWrite
      BY <2>18 DEF ReenrollWrite, Written
    <2>19. CASE Dies
      BY <2>19 DEF Dies
    <2> QED
      BY <2>1, <2>2, <2>3, <2>4, <2>5, <2>6, <2>7, <2>8, <2>9, <2>10, <2>11,
         <2>12, <2>13, <2>14, <2>15, <2>16, <2>17, <2>18, <2>19
         DEF Next, Enrollment, Renewal
  <1> QED
    BY <1>1, PkiCorrect, PTL DEF Spec, HalfWrittenStays

==============================================================================
