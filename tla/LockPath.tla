------------------------------ MODULE LockPath ------------------------------
(***************************************************************************)
(* Opening the file a lock is taken on: src/rust-lock/path_security.rs,    *)
(* one step per file-system call, for processes of one user that open the  *)
(* same path at once, under the private or the shared policy.              *)
(*                                                                         *)
(* The path is a chain of directories and the file, levels 1 to File. An   *)
(* object has a kind, an owner, an access class and, for a file, which     *)
(* file it is. The class of a directory is "write" when others may write   *)
(* to it, that of a file "private" when only its owner has access; mode    *)
(* bits and Windows ACL entries are abstracted to these classes.           *)
(***************************************************************************)
EXTENDS Naturals, FiniteSets

CONSTANTS
    Openers,        \* the processes that open the path
    Private,        \* those that use the private policy, the default
    Directories,    \* how many directories the path has
    Starts,         \* what may be at the path's levels at first
    ToolModes       \* the classes another program gives to a directory it makes

File == Directories + 1
Levels == 1..File
Absent == [kind |-> "none"]

Object(kind, mine, mode, id) == [kind |-> kind, mine |-> mine, mode |-> mode, id |-> id]

Objects ==
    [kind : {"dir", "file", "link"}, mine : BOOLEAN, mode : {"private", "read", "write"}, id : Nat]

ASSUME LockPathAssumption ==
    /\ Private \subseteq Openers
    /\ Directories \in Nat \ {0}
    /\ Starts \subseteq [Levels -> Objects \cup {Absent}]
    /\ ToolModes \subseteq {"private", "read", "write"}

VARIABLES
    platform,   \* "unix" or "windows"
    fs,         \* what is at each level
    opener,     \* where each call is, the level it is at, the file it holds
    calm,       \* nothing at the path calls for a refusal
    start       \* what was there at first

path == <<platform, fs, opener, calm, start>>

Exists(k) == fs[k].kind # "none"
IsDirectory(k) == fs[k].kind = "dir"

\* What a user's own directories and lock file normally look like.
Benign(objects) ==
    /\ \A k \in 1..Directories :
          objects[k].kind # "none" => objects[k].kind = "dir" /\ objects[k].mine
                                      /\ objects[k].mode # "write"
    /\ objects[File].kind # "none" => objects[File].kind = "file" /\ objects[File].mine
                                      /\ objects[File].mode = "private"

PathInit ==
    /\ platform \in {"unix", "windows"}
    /\ fs \in Starts
    /\ platform = "windows" => Benign(fs)
    /\ opener = [o \in Openers |-> [pc |-> "walk", at |-> Directories, missing |-> {}, file |-> 0]]
    /\ calm = Benign(fs)
    /\ start = fs

Reach(o, pc) == opener' = [opener EXCEPT ![o].pc = pc]

(***************************************************************************)
(* ensure_lock_parent: from the parent upwards, the nearest directory that *)
(* exists must be a real one; the missing ones are then made, outermost    *)
(* first, and the parent is validated.                                     *)
(***************************************************************************)
Walk(o) ==
    LET k == opener[o].at
    IN  /\ opener[o].pc = "walk"
        /\ \/ /\ ~Exists(k)
              /\ opener' = [opener EXCEPT ![o].missing = @ \cup {k},
                                          ![o].at = IF k > 1 THEN k - 1 ELSE k,
                                          ![o].pc = IF k > 1 THEN "walk" ELSE "make"]
           \/ Exists(k) /\ ~IsDirectory(k) /\ Reach(o, "refused")
           \/ IsDirectory(k) /\ Reach(o, "make")
        /\ UNCHANGED <<platform, fs, calm, start>>

Outermost(levels) == CHOOSE k \in levels : \A j \in levels : k <= j

\* A new directory is owner-only on Unix; on Windows it inherits an ACL until
\* the next step replaces it. One that exists by now is taken as it is.
MakeDirectory(o) ==
    LET k == Outermost(opener[o].missing)
    IN  /\ opener[o].pc = "make" /\ opener[o].missing # {}
        /\ IF Exists(k) THEN UNCHANGED fs
           ELSE fs' = [fs EXCEPT ![k] = Object("dir", TRUE,
                                               IF platform = "unix" THEN "private" ELSE "read", 0)]
        /\ Reach(o, "settle")
        /\ UNCHANGED <<platform, calm, start>>

SettleDirectory(o) ==
    LET k == Outermost(opener[o].missing)
    IN  /\ opener[o].pc = "settle"
        /\ IF IsDirectory(k) /\ fs[k].mine
           THEN /\ fs' = [fs EXCEPT ![k].mode = "private"]
                /\ opener' = [opener EXCEPT ![o].missing = @ \ {k}, ![o].pc = "make"]
           ELSE Reach(o, "refused") /\ UNCHANGED fs
        /\ UNCHANGED <<platform, calm, start>>

DirectoryAccepted(o) ==
    /\ IsDirectory(Directories)
    /\ platform = "unix" => fs[Directories].mine
    /\ o \in Private => fs[Directories].mode # "write"

ValidateDirectory(o) ==
    /\ opener[o].pc = "make" /\ opener[o].missing = {}
    /\ Reach(o, IF DirectoryAccepted(o) THEN "open" ELSE "refused")
    /\ UNCHANGED <<platform, fs, calm, start>>

(***************************************************************************)
(* open_final_component: open without following a link, else create        *)
(* exclusively, and again when another process created it in between.      *)
(***************************************************************************)
OpenExisting(o) ==
    /\ opener[o].pc = "open"
    /\ \/ ~Exists(File) /\ Reach(o, "create")
       \/ Exists(File) /\ fs[File].kind # "file" /\ Reach(o, "refused")
       \/ /\ fs[File].kind = "file"
          /\ opener' = [opener EXCEPT ![o].pc = "check", ![o].file = fs[File].id]
    /\ UNCHANGED <<platform, fs, calm, start>>

\* Slip: the name is taken even from a file that has it, as when the file is removed
\* and made again, or a new one is renamed over it: the name goes to a new file.
MayTruncate == TRUE

\* create_new: the call fails when anything has the name.
MayCreate == ~Exists(File)

CreateExclusive(o) ==
    /\ opener[o].pc = "create"
    /\ LET fresh == 1 + IF Exists(File) THEN fs[File].id ELSE 0
       IN  IF MayCreate
           THEN /\ fs' = [fs EXCEPT ![File] = Object("file", TRUE,
                                IF platform = "unix" THEN "private" ELSE "read", fresh)]
                /\ opener' = [opener EXCEPT ![o].pc = "tighten", ![o].file = fresh]
           ELSE Reach(o, "open") /\ UNCHANGED fs
    /\ UNCHANGED <<platform, calm, start>>

Tighten(o) ==
    /\ opener[o].pc = "tighten"
    /\ fs' = [fs EXCEPT ![File].mode = "private"]
    /\ Reach(o, "check")
    /\ UNCHANGED <<platform, calm, start>>

(***************************************************************************)
(* validate_opened_lock_file: on Unix an over-permissive file is refused,  *)
(* on Windows the private policy tightens it first. The identity is then   *)
(* the canonical path, the same for every opener.                          *)
(***************************************************************************)
FileAccepted(o) ==
    \/ platform = "windows"
    \/ fs[File].mine /\ (o \in Private => fs[File].mode = "private")

ValidateFile(o) ==
    /\ opener[o].pc = "check"
    /\ fs' = IF platform = "windows" /\ o \in Private
             THEN [fs EXCEPT ![File].mode = "private"] ELSE fs
    /\ Reach(o, IF FileAccepted(o) THEN "opened" ELSE "refused")
    /\ UNCHANGED <<platform, calm, start>>

(***************************************************************************)
(* Around the openers: one may be killed between any two calls, and        *)
(* another program of the user may make a missing directory.               *)
(***************************************************************************)
Kill(o) ==
    /\ opener[o].pc \notin {"opened", "refused", "killed"}
    /\ Reach(o, "killed")
    /\ UNCHANGED <<platform, fs, calm, start>>

ToolMakes(k, mode) ==
    /\ ~Exists(k) /\ (k > 1 => IsDirectory(k - 1))
    /\ fs' = [fs EXCEPT ![k] = Object("dir", TRUE, mode, 0)]
    /\ calm' = (calm /\ mode # "write")
    /\ UNCHANGED <<platform, opener, start>>

PathNext ==
    \/ \E o \in Openers :
          \/ Walk(o) \/ MakeDirectory(o) \/ SettleDirectory(o) \/ ValidateDirectory(o)
          \/ OpenExisting(o) \/ CreateExclusive(o) \/ Tighten(o) \/ ValidateFile(o) \/ Kill(o)
    \/ \E k \in 1..Directories, mode \in ToolModes : ToolMakes(k, mode)

PathSpec == PathInit /\ [][PathNext]_path

(***************************************************************************)
(* Properties.                                                             *)
(***************************************************************************)
\* However the calls interleave, die and meet directories made by others:
\* every opener that succeeds holds the one file at the path, a regular file
\* that under the private policy only its owner has access to, in a directory
\* others cannot write; what was at the path before keeps its permissions on
\* Unix ("rejected rather than chmod'd"); and nobody is refused at a path with
\* nothing wrong in it, though two of them make its directories at once.
LockPathTrue ==
    /\ \A o \in Openers : opener[o].pc = "opened" =>
          /\ fs[File].kind = "file" /\ opener[o].file = fs[File].id
          /\ platform = "unix" => fs[File].mine /\ fs[Directories].mine
          /\ o \in Private => fs[File].mode = "private" /\ fs[Directories].mode # "write"
    /\ \A o \in Openers : opener[o].pc = "refused" => ~calm
    /\ platform = "unix" => \A k \in Levels : start[k] # Absent => fs[k] = start[k]
=============================================================================
