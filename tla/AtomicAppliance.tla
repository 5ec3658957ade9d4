-------------------------- MODULE AtomicAppliance --------------------------
(***************************************************************************)
(* What the recovery journal of the management service promises: the       *)
(* database, the four files kept beside it (server identity, pending key,  *)
(* client authorities, TOTP key) and the catalogue of backups change only  *)
(* by whole operations.  Nothing here fails, crashes or is half done; the  *)
(* detailed module Recovery implements it through prepare, snapshot,       *)
(* apply, commit and, after a failure or a crash, restoration.             *)
(***************************************************************************)
EXTENDS Naturals

CONSTANTS
  Generations,  \* contents of a database or of a file
  Names,        \* file names of archives
  Absent        \* no such file; no such archive

Files == {"certificate", "pending", "clientCa", "totpKey"}

(* What an archive holds.  Without a certificate or when it is not portable
   the corresponding files of the appliance are kept. *)
Contents ==
  [data : Generations, certificate : Generations \cup {Absent},
   withKey : BOOLEAN, portable : BOOLEAN, totpKey : Generations \cup {Absent},
   clientCa : Generations \cup {Absent}, supported : BOOLEAN]

VARIABLES data, files, catalogue

vars == <<data, files, catalogue>>

Init ==
  /\ data \in Generations
  /\ files \in [Files -> Generations \cup {Absent}]
  /\ catalogue = [n \in Names |-> Absent]

(* The files after the archive c is restored over the files f. *)
RestoredFiles(c, f) ==
  [f EXCEPT
     !.certificate = IF c.certificate = Absent THEN @ ELSE c.certificate,
     !.totpKey = IF c.portable THEN c.totpKey ELSE @,
     !.clientCa = IF c.portable THEN c.clientCa ELSE @]

Write ==
  /\ data' \in Generations
  /\ UNCHANGED <<files, catalogue>>

RequestCertificate ==
  /\ \E g \in Generations : files' = [files EXCEPT !.pending = g]
  /\ UNCHANGED <<data, catalogue>>

InstallCertificate ==
  /\ \E g \in Generations :
       files' = [files EXCEPT !.certificate = g, !.pending = Absent]
  /\ UNCHANGED <<data, catalogue>>

ChangeAuthorities ==
  /\ \E g \in Generations \cup {Absent} :
       files' = [files EXCEPT !.clientCa = g]
  /\ UNCHANGED <<data, catalogue>>

Record ==
  /\ \E n \in Names, c \in Contents :
       /\ catalogue[n] = Absent
       /\ catalogue' = [catalogue EXCEPT ![n] = c]
  /\ UNCHANGED <<data, files>>

Restore ==
  /\ \E n \in Names :
       /\ catalogue[n] # Absent
       /\ data' = catalogue[n].data
       /\ files' = RestoredFiles(catalogue[n], files)
  /\ UNCHANGED catalogue

Next ==
  \/ Write \/ RequestCertificate \/ InstallCertificate \/ ChangeAuthorities
  \/ Record \/ Restore

Spec == Init /\ [][Next]_vars
=============================================================================
