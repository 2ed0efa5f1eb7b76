-------------------------------- MODULE Share --------------------------------
(***************************************************************************)
(* src/src/share.cpp: one share at a time at the mount point, whose        *)
(* commands the shell runs. A share is what the code compares, the string  *)
(* host:path, which does not tell nfs from ssh without a user.             *)
(***************************************************************************)
EXTENDS Naturals, Sequences

CONSTANTS
  Requests,         \* [protocol, share], the share of a "file" being NoShare
  NoShare,
  MaxMounts         \* bound: mounts above each other at the point

VARIABLES
  mounted,          \* _mounted
  kind,             \* _classic_mount and _fuse_mount: "classic", "fuse" or "none"
  point,            \* what is mounted at the point, [share, kind], the last on top
  answer,           \* what the last mount() said to be there, or NoShare
  astray            \* whether a command to unmount failed or could not work

shareVars == <<mounted, kind, point, answer, astray>>

ShareInit ==
  /\ mounted = NoShare
  /\ kind = "none"
  /\ point = <<>>
  /\ answer = NoShare
  /\ astray = FALSE

KindOf(protocol) ==
  CASE protocol \in {"nfs", "smb"} -> "classic"
    [] protocol = "ssh" -> "fuse"
    [] OTHER -> "none"

(* fusermount -u knows only fuse; without a kind the command is the point. *)
Undone(tool) ==
  \/ tool = "classic"
  \/ tool = "fuse" /\ point[Len(point)].kind = "fuse"

(* The outcomes of a command to unmount: what is left, and whether it worked. *)
Unmounted(tool) ==
  {[left |-> point, well |-> FALSE]} \cup
    (IF point # <<>> /\ Undone(tool)
     THEN {[left |-> SubSeq(point, 1, Len(point) - 1), well |-> TRUE]}
     ELSE {})

(* A mistake the checks notice: _mounted is set whatever the command did. *)
MountOnAnyway(below, request) ==
  /\ mounted' = request.share
  /\ \/ /\ Len(below) < MaxMounts
        /\ point' = Append(below, [share |-> request.share, kind |-> kind'])
        /\ answer' = request.share
     \/ point' = below /\ answer' = NoShare

(* The command to mount works or not; _mounted is set if it did. *)
MountOn(below, request) ==
  \/ /\ Len(below) < MaxMounts
     /\ point' = Append(below, [share |-> request.share, kind |-> kind'])
     /\ mounted' = request.share
     /\ answer' = request.share
  \/ /\ point' = below
     /\ mounted' = NoShare
     /\ answer' = NoShare

(* mount(): a "file" or a refused request returns with the kind forgotten, *)
(* the share that is there is not mounted again, and another one is        *)
(* unmounted by the command of the new kind, whatever it returns. *)
Mount(request) ==
  /\ kind' = KindOf(request.protocol)
  /\ \/ /\ request.share = NoShare
        /\ answer' = NoShare
        /\ UNCHANGED <<mounted, point, astray>>
     \/ /\ request.share # NoShare /\ mounted = request.share
        /\ answer' = request.share
        /\ UNCHANGED <<mounted, point, astray>>
     \/ /\ request.share # NoShare /\ mounted = NoShare
        /\ MountOn(point, request)
        /\ UNCHANGED astray
     \/ /\ request.share # NoShare /\ mounted \notin {NoShare, request.share}
        /\ \E outcome \in Unmounted(kind') :
             /\ astray' = (astray \/ ~ outcome.well)
             /\ MountOn(outcome.left, request)

(* umount(), also by the destructor: _mounted is erased first. *)
Umount ==
  /\ answer' = NoShare
  /\ UNCHANGED kind
  /\ IF mounted = NoShare
     THEN UNCHANGED <<mounted, point, astray>>
     ELSE \E outcome \in Unmounted(kind) :
            /\ mounted' = NoShare
            /\ point' = outcome.left
            /\ astray' = (astray \/ ~ outcome.well)

ShareNext == Umount \/ \E request \in Requests : Mount(request)

ShareSpec == ShareInit /\ [][ShareNext]_shareVars

(* Until a command to unmount fails, because of the system or because the  *)
(* kind it was chosen by is that of a later request (48, 104), the point   *)
(* has the share that the object and its last answer say, and no other.    *)
PointBelieved ==
  ~ astray =>
    /\ [i \in DOMAIN point |-> point[i].share]
         = (IF mounted = NoShare THEN <<>> ELSE <<mounted>>)
    /\ answer # NoShare => answer = mounted
=============================================================================
