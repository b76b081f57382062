------------------------------ MODULE FileStore ------------------------------
(***************************************************************************)
(* What a program may rely on in the file system: objects of a kind, files *)
(* with data, and names in directories.  One call creates a name and its   *)
(* object, changes the data of one file, or removes one name; an object    *)
(* without a name may vanish, when the last user has closed it.  Blocks,   *)
(* inode tables and reference counts do not show.                          *)
(***************************************************************************)
EXTENDS Naturals, Sequences

CONSTANTS Objects, Names, Bytes, Lens

VARIABLES kind,  \* kind[o]: "NONE", "FILE", "DIR" or "DEV"
          data,  \* data[o]: the data of a file
          names  \* the names: [dir, name, obj]

store == <<kind, data, names>>

of_kind(K) == {o \in Objects : kind[o] \in K}
nameless == of_kind({"FILE", "DIR", "DEV"}) \ {l.obj : l \in names}
empty_dir(o) == \A l \in names : l.dir # o

StoreInit ==
  /\ kind \in [Objects -> {"NONE", "FILE", "DIR", "DEV"}]
  /\ \A o \in Objects : data[o] # <<>> => kind[o] = "FILE"
  /\ \A l \in names : kind[l.dir] = "DIR" /\ kind[l.obj] # "NONE"

Create(d, n, o, t) ==
  /\ \A l \in names : ~(l.dir = d /\ l.name = n)
  /\ kind' = [kind EXCEPT ![o] = t]
  /\ names' = names \cup {[dir |-> d, name |-> n, obj |-> o]}
  /\ UNCHANGED data

\* n times the byte v from offset off on, which is not past the end.
Write(o, off, n, v) ==
  /\ data' = [data EXCEPT ![o] =
       [i \in 1 .. (IF off + n > Len(@) THEN off + n ELSE Len(@)) |->
          IF off < i /\ i <= off + n THEN v ELSE data[o][i]]]
  /\ UNCHANGED <<kind, names>>

Truncate(o) ==
  /\ data' = [data EXCEPT ![o] = <<>>]
  /\ UNCHANGED <<kind, names>>

\* The objects of F vanish, with the names that a vanished directory held.
vanish(F, left) ==
  /\ kind' = [o \in Objects |-> IF o \in F THEN "NONE" ELSE kind[o]]
  /\ data' = [o \in Objects |-> IF o \in F THEN <<>> ELSE data[o]]
  /\ names' = {l \in left : l.dir \notin F}

Unlink(l, F) ==
  /\ kind[l.obj] = "DIR" => empty_dir(l.obj)
  /\ vanish(F, names \ {l})

\* Only what has no name any more can vanish by a close.
Close(F) == vanish(F, names)

StoreNext ==
  \/ \E d \in of_kind({"DIR"}), o \in of_kind({"NONE"}), n \in Names, t \in {"FILE", "DIR", "DEV"} :
       Create(d, n, o, t)
  \/ \E o \in of_kind({"FILE"}) :
       Truncate(o) \/ \E n \in Lens, v \in Bytes, off \in 0 .. Len(data[o]) : Write(o, off, n, v)
  \/ \E l \in names : \E F \in {{}, {l.obj}} : Unlink(l, F)
  \/ \E F \in SUBSET nameless : Close(F)

StoreSpec == StoreInit /\ [][StoreNext]_store
=============================================================================
