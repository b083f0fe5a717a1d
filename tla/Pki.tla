-------------------------------- MODULE Pki --------------------------------
(***************************************************************************)
(* The device certificates: pki2_check_and_enroll() at start-up, the       *)
(* reenroll command, and the two files they leave on disk for the next     *)
(* start (src/ucentral-client/ucentral-client.c, proto.c, est-client.c).   *)
(*                                                                         *)
(* The birth certificate, key and CA bundle are only read.  Of             *)
(* operational.pem we keep which certificate it holds: the n-th the EST    *)
(* server issued to this device, or Partial for a file that was created or *)
(* truncated and not (completely) written.  The process may die between    *)
(* any two steps; what is on disk stays.                                   *)
(***************************************************************************)
EXTENDS Naturals

CONSTANT MaxCerts  \* bound: certificates the EST server issues

ASSUME PkiAssumption == MaxCerts \in Nat

Absent == 0
Partial == MaxCerts + 1
Issued == 1 .. MaxCerts

VARIABLES
  pc,       \* where the main thread is; "down": no process
  birth,    \* TRUE when /etc/ucentral/cert.pem exists
  pem,      \* operational.pem
  ca,       \* operational.ca: "absent", "partial" or "ok"
  client,   \* client.cert and client.ca: "unset", "birth" or "operational"
  got,      \* the certificate enrolled_cert/renewed_cert points to
  issued,   \* how many certificates the EST server issued
  loaded,   \* what operational.pem held when the lws context read it
  alarm,    \* TRUE when alarm(10) was called and did not go off
  failed    \* history: what this process saw fail during enrollment

files == <<pem, ca>>
vars == <<pc, birth, files, client, got, issued, loaded, alarm, failed>>

Boot_pc == {"check", "enroll", "save", "write", "cacerts", "savecas", "writecas", "main"}
Run_pc == {"run", "reenroll", "resave", "rewrite"}

TypeOK ==
  /\ pc \in {"down"} \cup Boot_pc \cup Run_pc
  /\ birth \in BOOLEAN
  /\ pem \in {Absent, Partial} \cup Issued
  /\ ca \in {"absent", "partial", "ok"}
  /\ client \in [cert : {"unset", "birth", "operational"},
                 ca : {"unset", "birth", "operational"}]
  /\ got \in {Absent} \cup Issued
  /\ issued \in 0 .. MaxCerts
  /\ loaded \in {Absent, Partial} \cup Issued
  /\ alarm \in BOOLEAN
  /\ failed \subseteq {"enroll", "save", "cacerts"}

Unset == [cert |-> "unset", ca |-> "unset"]
Birth == [cert |-> "birth", ca |-> "birth"]
Operational == [cert |-> "operational", ca |-> "operational"]

Init ==
  /\ pc = "down"
  /\ birth \in BOOLEAN
  /\ pem = Absent /\ ca = "absent"
  /\ client = Unset
  /\ got = Absent /\ issued = 0 /\ loaded = Absent
  /\ alarm = FALSE /\ failed = {}

-----------------------------------------------------------------------------
(* What the steps have in common. *)

\* The EST server answers a request with a certificate.
Issue == issued < MaxCerts /\ issued' = issued + 1 /\ got' = issued + 1

\* pki2_check_and_enroll() returns with these paths in client.
Return(c) == pc' = "main" /\ client' = c

\* fwrite() and fclose() as far as the caller notices: a short fwrite() is
\* an error, but what fclose() cannot flush is lost without one.
Written(file, new, partial) == file' \in {new, partial}

-----------------------------------------------------------------------------
(* pki2_check_and_enroll(). *)

\* The start of the process.
Boot ==
  /\ pc = "down" /\ pc' = "check"
  /\ UNCHANGED <<birth, files, client, got, issued, loaded, alarm, failed>>

Found ==
  /\ pc = "check" /\ pem # Absent
  /\ Return(Operational)
  /\ UNCHANGED <<birth, files, got, issued, loaded, alarm, failed>>

NoBirthCert ==
  /\ pc = "check" /\ pem = Absent /\ ~birth
  /\ pc' = "main"
  /\ UNCHANGED <<birth, files, client, got, issued, loaded, alarm, failed>>

NoOperational ==
  /\ pc = "check" /\ pem = Absent /\ birth
  /\ pc' = "enroll"
  /\ UNCHANGED <<birth, files, client, got, issued, loaded, alarm, failed>>

EnrollOk ==
  /\ pc = "enroll" /\ pc' = "save"
  /\ Issue
  /\ UNCHANGED <<birth, files, client, loaded, alarm, failed>>

EnrollFails ==
  /\ pc = "enroll"
  /\ failed' = failed \cup {"enroll"}
  /\ Return(Birth)
  /\ UNCHANGED <<birth, files, got, issued, loaded, alarm>>

SaveFails == failed' = failed \cup {"save"} /\ Return(Birth)

\* est_save_cert() opens operational.pem, or cannot.
SaveOpen ==
  /\ pc = "save"
  /\ \/ pem' = Partial /\ pc' = "write" /\ UNCHANGED <<client, failed>>
     \/ SaveFails /\ UNCHANGED pem
  /\ UNCHANGED <<birth, ca, got, issued, loaded, alarm>>

\* Mutant: does not look at what est_save_cert() returns.
SaveWrite_unchecked ==
  /\ pc = "write" /\ pc' = "cacerts"
  /\ \/ pem' \in {got, Partial} /\ UNCHANGED failed
     \/ pem' = Partial /\ failed' = failed \cup {"save"}
  /\ got' = Absent
  /\ UNCHANGED <<birth, ca, client, issued, loaded, alarm>>

SaveWrite ==
  /\ pc = "write"
  /\ \/ /\ Written(pem, got, Partial)
        /\ pc' = "cacerts"
        /\ UNCHANGED <<client, failed>>
     \/ pem' = Partial /\ SaveFails
  /\ got' = Absent
  /\ UNCHANGED <<birth, ca, issued, loaded, alarm>>

\* est_get_cacerts() authenticates with the file just saved.
CacertsOk ==
  /\ pc = "cacerts" /\ pem \in Issued /\ pc' = "savecas"
  /\ UNCHANGED <<birth, files, client, got, issued, loaded, alarm, failed>>

CacertsFail ==
  /\ pc = "cacerts"
  /\ failed' = failed \cup {"cacerts"}
  /\ Return(Operational)
  /\ UNCHANGED <<birth, files, got, issued, loaded, alarm>>

\* The CA bundle is saved; nobody looks at the result.
SaveCasOpen ==
  /\ pc = "savecas"
  /\ \/ ca' = "partial" /\ pc' = "writecas" /\ UNCHANGED client
     \/ Return(Operational) /\ UNCHANGED ca
  /\ UNCHANGED <<birth, pem, got, issued, loaded, alarm, failed>>

SaveCasWrite ==
  /\ pc = "writecas"
  /\ Written(ca, "ok", "partial")
  /\ Return(Operational)
  /\ UNCHANGED <<birth, pem, got, issued, loaded, alarm, failed>>

\* main() gives the paths to lws_create_context(), which reads the files.
CreateContext ==
  /\ pc = "main" /\ pc' = "run"
  /\ loaded' = IF client.cert = "operational" THEN pem ELSE Absent
  /\ UNCHANGED <<birth, files, client, got, issued, alarm, failed>>

-----------------------------------------------------------------------------
(* reenroll_handle(). *)

Reenroll ==
  /\ pc = "run" /\ pc' = "reenroll"
  /\ UNCHANGED <<birth, files, client, got, issued, loaded, alarm, failed>>

\* Mutant: asks with the birth certificate.
ReenrollOk_birth ==
  /\ pc = "reenroll" /\ birth /\ pc' = "resave"
  /\ Issue
  /\ UNCHANGED <<birth, files, client, loaded, alarm, failed>>

\* The request is signed for the subject of operational.pem.
ReenrollOk ==
  /\ pc = "reenroll" /\ pem \in Issued /\ pc' = "resave"
  /\ Issue
  /\ UNCHANGED <<birth, files, client, loaded, alarm, failed>>

\* Mutant: a request that failed leaves no certificate behind.
ReenrollFails_cleanup ==
  /\ pc = "reenroll" /\ pc' = "run"
  /\ pem' = Absent
  /\ UNCHANGED <<birth, ca, client, got, issued, loaded, alarm, failed>>

ReenrollFails ==
  /\ pc = "reenroll" /\ pc' = "run"
  /\ UNCHANGED <<birth, files, client, got, issued, loaded, alarm, failed>>

ReenrollOpen ==
  /\ pc = "resave"
  /\ \/ pem' = Partial /\ pc' = "rewrite" /\ UNCHANGED got
     \/ pc' = "run" /\ got' = Absent /\ UNCHANGED pem
  /\ UNCHANGED <<birth, ca, client, issued, loaded, alarm, failed>>

\* Mutant: goes on with the certificate lws has read.
ReenrollWrite_no_restart ==
  /\ pc = "rewrite" /\ pc' = "run"
  /\ pem' \in {got, Partial} /\ UNCHANGED alarm
  /\ got' = Absent
  /\ UNCHANGED <<birth, ca, client, issued, loaded, failed>>

ReenrollWrite ==
  /\ pc = "rewrite" /\ pc' = "run"
  /\ \/ Written(pem, got, Partial) /\ alarm' = TRUE
     \/ pem' = Partial /\ UNCHANGED alarm
  /\ got' = Absent
  /\ UNCHANGED <<birth, ca, client, issued, loaded, failed>>

-----------------------------------------------------------------------------
\* The end of the process: a crash, a reboot, or the SIGALRM nobody handles.
Dies ==
  /\ pc # "down" /\ pc' = "down"
  /\ client' = Unset
  /\ got' = Absent /\ loaded' = Absent
  /\ alarm' = FALSE /\ failed' = {}
  /\ UNCHANGED <<birth, files, issued>>

Enrollment ==
  \/ Found \/ NoBirthCert \/ NoOperational \/ EnrollOk \/ EnrollFails
  \/ SaveOpen \/ SaveWrite \/ CacertsOk \/ CacertsFail
  \/ SaveCasOpen \/ SaveCasWrite \/ CreateContext

Renewal ==
  \/ Reenroll \/ ReenrollOk \/ ReenrollFails \/ ReenrollOpen \/ ReenrollWrite

Next == Boot \/ Enrollment \/ Renewal \/ Dies

Spec == Init /\ [][Next]_vars

-----------------------------------------------------------------------------
(* Safety. *)

\* "Falls back to birth certificates if enrollment fails": when
\* est_simple_enroll() or est_save_cert() reports an error the process runs
\* on the birth certificate, to its end.
FallsBackToBirth ==
  failed \cap {"enroll", "save"} # {} => client = Birth

\* A complete operational certificate on disk is the one in use, or the
\* restart that puts it to use is scheduled: reenroll_handle() never leaves
\* the client on a certificate that it has replaced.
RunsWhatIsSaved ==
  pc = "run" /\ pem \in Issued => loaded = pem \/ alarm

\* Once operational.pem exists no step removes it, so no later process asks
\* the EST server to enroll the device a second time.
EnrolledOnce == [][pem # Absent => pem' # Absent]_vars

\* Nobody is writing the file any more.
LeftPartial == pem = Partial /\ pc \notin {"write", "rewrite"}

\* A file that was left half written is never repaired: the next start takes
\* it because it exists, and reenroll_handle() cannot read it to renew it.
HalfWrittenStays == [][LeftPartial => LeftPartial']_vars

-----------------------------------------------------------------------------
(* What the code announces and does not do. *)

\* "PKI 2.0: Failed to get CA certs, using birth CA": when
\* est_get_cacerts() failed the CA in use is the birth CA.
BirthCaWithoutCacerts == "cacerts" \in failed => client.ca = "birth"
=============================================================================
