------------------------------ MODULE ContentStore ------------------------------
(***************************************************************************)
(* One object of the content-addressed store (CAS): processes put it, from *)
(* bytes or from a file, link it into place and delete it, one system call *)
(* at a time.  An object is an inode; what is materialized may be a link   *)
(* to the same inode, and who has it may write into it.  A power failure   *)
(* can cut what was never synchronized.                                    *)
(***************************************************************************)
EXTENDS Naturals, FiniteSetsExt

CONSTANTS
    Callers, None,
    MaxInodes,      \* bound of the model: files at a time
    Durable,        \* CAS(durable=...)
    MaxFailures,    \* bounds of the model: power failures,
    MaxSpoils       \* and writes into what is materialized

\* What the constants are.
StoreAssumption ==
    /\ Durable \in BOOLEAN /\ {MaxInodes, MaxFailures, MaxSpoils} \subseteq Nat
    /\ None \notin Nat

VARIABLES
    dir,            \* the object's directory exists
    object,         \* the inode at the object's path
    data,           \* what is in every inode
    pc, kind,       \* where a caller is, and in which operation
    temp,           \* its temporary file
    held,           \* the inode of the file it has materialized
    outcome,        \* how its last operation ended
    deleted,        \* history: the object was deleted since the operation began
    failures, spoils

disk == <<dir, object, data>>
vars == <<disk, pc, kind, temp, held, outcome, deleted, failures, spoils>>

Numbers == 1..MaxInodes

\* The sizes of "whole" and "spoilt" are the digest's.
Data  == {"free", "part", "whole", "cut", "spoilt"}
Kinds == {"bytes", "file", "link", "delete"}

TypeOK ==
    /\ dir \in BOOLEAN /\ object \in Numbers \cup {None} /\ data \in [Numbers -> Data]
    /\ pc \in [Callers -> {"idle", "has", "mkdir", "temp", "write", "parent", "check", "replace",
                           "link", "move", "unlink", "rmdir"}]
    /\ kind \in [Callers -> Kinds] /\ temp \in [Callers -> Numbers \cup {None}]
    /\ held \in [Callers -> Numbers \cup {None}]
    /\ outcome \in [Callers -> {"none", "put", "raised", "other"}]
    /\ deleted \in [Callers -> BOOLEAN]
    /\ failures \in 0..MaxFailures /\ spoils \in 0..MaxSpoils
    /\ object # None => dir

Init ==
    /\ dir = FALSE /\ object = None /\ data = [i \in Numbers |-> "free"]
    /\ pc = [c \in Callers |-> "idle"] /\ kind = [c \in Callers |-> "bytes"]
    /\ temp = [c \in Callers |-> None] /\ held = [c \in Callers |-> None]
    /\ outcome = [c \in Callers |-> "none"] /\ deleted = [c \in Callers |-> FALSE]
    /\ failures = 0 /\ spoils = 0

Go(c, label) == pc' = [pc EXCEPT ![c] = label]

\* The operation ends.
End(c, how) ==
    /\ pc' = [pc EXCEPT ![c] = "idle"] /\ kind' = [kind EXCEPT ![c] = "bytes"]
    /\ outcome' = [outcome EXCEPT ![c] = how]

\* An inode is free again when no name and no caller has it.
Without(i, names) ==
    IF i = None \/ i \in names THEN data ELSE [data EXCEPT ![i] = "free"]

Names(but) == {object} \cup {temp[c] : c \in Callers \ but} \cup {held[c] : c \in Callers}

\* A new file takes any free inode; which one makes no difference.
Free == {i \in Numbers : data[i] = "free"} \ Names({})

Call(c, k) ==
    /\ pc[c] = "idle"
    /\ Go(c, CASE k \in {"bytes", "link"} -> "has" [] k = "file" -> "temp" [] OTHER -> "unlink")
    /\ kind' = [kind EXCEPT ![c] = k]
    /\ outcome' = [outcome EXCEPT ![c] = "none"] /\ deleted' = [deleted EXCEPT ![c] = FALSE]
    /\ UNCHANGED <<disk, temp, held, failures, spoils>>

(***************************************************************************)
(* has                                                                     *)
(***************************************************************************)
\* Mutant of Present: without the size.
PresentAtAll == object # None

\* is_file, and the size is the digest's.
Present == object # None /\ data[object] \in {"whole", "spoilt"}

Has(c) ==
    /\ pc[c] = "has"
    /\ \/ kind[c] = "bytes" /\ Present /\ End(c, "put")
       \/ kind[c] = "bytes" /\ ~Present /\ Go(c, "mkdir") /\ UNCHANGED <<kind, outcome>>
       \/ kind[c] = "link" /\ Present /\ Go(c, "link") /\ UNCHANGED <<kind, outcome>>
       \/ kind[c] = "link" /\ ~Present /\ End(c, "other")
    /\ UNCHANGED <<disk, temp, held, deleted, failures, spoils>>

(***************************************************************************)
(* put_bytes, put_file                                                     *)
(***************************************************************************)
\* mkdir of the parent, first in put_bytes and again in _finish_temp.
Mkdir(c) ==
    /\ pc[c] \in {"mkdir", "parent"} /\ Go(c, IF pc[c] = "mkdir" THEN "temp" ELSE "check")
    /\ dir' = TRUE
    /\ UNCHANGED <<object, data, kind, temp, held, outcome, deleted, failures, spoils>>

\* mkstemp: beside the object for bytes, in the root for a file.
Mkstemp(c) ==
    /\ pc[c] = "temp"
    /\ IF kind[c] = "bytes" /\ ~dir
       THEN End(c, "raised") /\ UNCHANGED <<data, temp>>
       ELSE /\ Free # {} /\ temp' = [temp EXCEPT ![c] = Min(Free)]
            /\ data' = [data EXCEPT ![Min(Free)] = "part"]
            /\ Go(c, "write") /\ UNCHANGED <<kind, outcome>>
    /\ UNCHANGED <<dir, object, held, deleted, failures, spoils>>

\* All of it is written and closed before it gets its name.
Write(c) ==
    /\ pc[c] = "write" /\ Go(c, "parent")
    /\ data' = [data EXCEPT ![temp[c]] = "whole"]
    /\ UNCHANGED <<dir, object, kind, temp, held, outcome, deleted, failures, spoils>>

\* An object of this size makes the temporary file superfluous.
Check(c) ==
    /\ pc[c] = "check"
    /\ IF Present
       THEN /\ data' = Without(temp[c], Names({c})) /\ temp' = [temp EXCEPT ![c] = None]
            /\ End(c, "put")
       ELSE Go(c, "replace") /\ UNCHANGED <<data, temp, kind, outcome>>
    /\ UNCHANGED <<dir, object, held, deleted, failures, spoils>>

\* os.replace, which fails when the directory is gone; if another put has come
\* first after all, its object will do.
Replace(c) ==
    /\ pc[c] = "replace" /\ temp' = [temp EXCEPT ![c] = None]
    /\ IF dir
       THEN /\ object' = temp[c] /\ End(c, "put")
            /\ data' = Without(object, {temp[d] : d \in Callers} \cup {held[d] : d \in Callers})
       ELSE /\ data' = Without(temp[c], Names({c})) /\ UNCHANGED object
            /\ End(c, IF Present THEN "put" ELSE "raised")
    /\ UNCHANGED <<dir, held, deleted, failures, spoils>>

(***************************************************************************)
(* materialize                                                             *)
(***************************************************************************)
\* os.link, or a copy where links are not possible; either needs the object.
Link(c) ==
    /\ pc[c] = "link"
    /\ \/ object = None /\ End(c, "other") /\ UNCHANGED <<data, temp>>
       \/ /\ object # None /\ temp' = [temp EXCEPT ![c] = object] /\ Go(c, "move")
          /\ UNCHANGED <<data, kind, outcome>>
       \/ /\ object # None /\ Free # {} /\ temp' = [temp EXCEPT ![c] = Min(Free)]
          /\ data' = [data EXCEPT ![Min(Free)] = data[object]]
          /\ Go(c, "move") /\ UNCHANGED <<kind, outcome>>
    /\ UNCHANGED <<dir, object, held, deleted, failures, spoils>>

Move(c) ==
    /\ pc[c] = "move" /\ End(c, "other")
    /\ held' = [held EXCEPT ![c] = temp[c]] /\ temp' = [temp EXCEPT ![c] = None]
    /\ data' = Without(held[c], {object} \cup {temp[d] : d \in Callers}
                                    \cup {held[d] : d \in Callers \ {c}})
    /\ UNCHANGED <<dir, object, deleted, failures, spoils>>

\* Who has the file writes into it: the same size, or another.
Spoil(c) ==
    /\ held[c] # None /\ spoils < MaxSpoils /\ spoils' = spoils + 1
    /\ \E how \in {"cut", "spoilt"} : data' = [data EXCEPT ![held[c]] = how]
    /\ UNCHANGED <<dir, object, pc, kind, temp, held, outcome, deleted, failures>>

(***************************************************************************)
(* delete                                                                  *)
(***************************************************************************)
Unlink(c) ==
    /\ pc[c] = "unlink"
    /\ IF object = None
       THEN End(c, "other") /\ UNCHANGED <<data, object, deleted>>
       ELSE /\ object' = None /\ Go(c, "rmdir") /\ UNCHANGED <<kind, outcome>>
            /\ data' = Without(object, {temp[d] : d \in Callers} \cup {held[d] : d \in Callers})
            /\ deleted' = [d \in Callers |-> TRUE]
    /\ UNCHANGED <<dir, temp, held, failures, spoils>>

\* The directory goes with its last entry, which may be a temporary file.
Rmdir(c) ==
    /\ pc[c] = "rmdir" /\ End(c, "other")
    /\ dir' = (dir /\ (object # None \/ \E d \in Callers : kind[d] = "bytes" /\ temp[d] # None))
    /\ deleted' = [d \in Callers |-> TRUE]
    /\ UNCHANGED <<object, data, temp, held, failures, spoils>>

(***************************************************************************)
(* A power failure                                                         *)
(***************************************************************************)
\* Calls end, their temporary files are not counted any more, and files that
\* were never synchronized may have lost their end.
PowerFails ==
    /\ failures < MaxFailures /\ failures' = failures + 1
    /\ pc' = [c \in Callers |-> "idle"] /\ kind' = [c \in Callers |-> "bytes"]
    /\ temp' = [c \in Callers |-> None] /\ outcome' = [c \in Callers |-> "none"]
    /\ \E lost \in SUBSET {i \in Numbers : data[i] = "whole" /\ ~Durable} :
           data' = [i \in Numbers |->
                       CASE i \notin {object} \cup {held[c] : c \in Callers} -> "free"
                         [] i \in lost -> "cut"
                         [] OTHER      -> data[i]]
    /\ UNCHANGED <<dir, object, held, deleted, spoils>>

Step(c) ==
    \/ Has(c) \/ Mkdir(c) \/ Mkstemp(c) \/ Write(c) \/ Check(c) \/ Replace(c)
    \/ Link(c) \/ Move(c) \/ Unlink(c) \/ Rmdir(c)

Next ==
    \/ \E c \in Callers : Step(c) \/ Spoil(c) \/ \E k \in Kinds : Call(c, k)
    \/ PowerFails

Spec == Init /\ [][Next]_vars

(***************************************************************************)
(* Properties                                                              *)
(***************************************************************************)
(* What a put promises (CAS): once it has returned, the object is there and   *)
(* can be read, whatever was there before, until somebody deletes it or       *)
(* writes into a file that shares its inode; and it raises only beside a      *)
(* delete, which can take the directory away under it.  An object cut short   *)
(* by a power failure is repaired, since its size is not the digest's.        *)
PutsHold ==
    \A c \in Callers :
        /\ outcome[c] = "put" =>
               deleted[c] \/ spoils > 0 \/ (object # None /\ data[object] = "whole")
        /\ outcome[c] = "raised" => deleted[c]
=================================================================================
