----------------------------- MODULE MCRequests -----------------------------
(* What the server's requests race for: accounts, links and sessions, and the *)
(* names uploads are stored under.  The two keep no state in common, so a     *)
(* behaviour is one of either while the other rests in an initial state.      *)
EXTENDS MCAccounts

CONSTANTS Names, Blobs, Ids, Uploads, Editors, Outside, MaxVersion

VARIABLES part, folder, disk, bytes, project, rows, up, ed, scan

Folder == INSTANCE LibraryIndex

folderVars == <<folder, disk, bytes, project, rows, up, ed, scan>>

(* The part that rests does so in one of its initial states.                  *)
RequestsInit ==
  /\ part \in {"accounts", "uploads"}
  /\ part = "accounts" \/ users = [u \in Users |-> NoUser]
  /\ part = "uploads" \/ disk = [n \in Names |-> None]
  /\ Init /\ Folder!Init

AccountsPart == part = "accounts" /\ Next /\ UNCHANGED <<part, folderVars>>
UploadsPart == part = "uploads" /\ Folder!Next /\ UNCHANGED <<part, vars>>

RequestsSpec == RequestsInit /\ [][AccountsPart \/ UploadsPart]_<<part, vars, folderVars>>

(* What uploads promise, looked at while they are at work.                    *)
UploadsAreSound == part = "uploads" => Folder!UploadsAreSound
=============================================================================
