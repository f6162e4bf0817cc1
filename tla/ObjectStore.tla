---------------------------- MODULE ObjectStore ----------------------------
(***************************************************************************)
(* The object store as the S2C log uses it: a map from keys to objects, in *)
(* which an object is written with PutMode::Create and never again.  The   *)
(* store itself is the object_store crate in front of S3 or the like; what *)
(* is modelled is what src/src/log.rs relies on.                           *)
(***************************************************************************)

\* A store without objects.
EmptyStore == [key \in {} |-> {}]

\* An unconditional put (PutMode::Overwrite), which the log does not use.
Overwrite(store, key, object) ==
    [k \in DOMAIN store \cup {key} |-> IF k = key THEN object ELSE store[k]]

(***************************************************************************)
(* put_opts with PutMode::Create: the object is written when the key is    *)
(* free; when it is not the call is refused (AlreadyExists) and the store  *)
(* stays as it is.                                                         *)
(***************************************************************************)
Create(store, key, object) ==
    IF key \in DOMAIN store THEN store ELSE Overwrite(store, key, object)
============================================================================
