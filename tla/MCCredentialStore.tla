-------------------------- MODULE MCCredentialStore --------------------------
(***************************************************************************)
(* Two instances of CredentialStore in one run, since both at once are too *)
(* many states: what was answered against what NVS holds, with writes that *)
(* fail; and the database in RAM against the reader's table and the taps,  *)
(* with derivations and readers that fail.                                 *)
(***************************************************************************)
EXTENDS CredentialStore, TLC

VARIABLE only  \* the fabric of the second instance, None in the first

(* Two fabrics, on an evictable slot, a PIN's and a user's; nobody taps, and *)
(* one reader runs, which enrolls and withdraws every key.                   *)
Durable ==
  /\ request'.slot \notin NevSlots
  /\ tap' = NoTap /\ reader' = reader /\ running'
  /\ left' = {} /\ (booted' => BootKey \in HeldKeys')
  /\ loaded' /\ pc' \in {"idle", "persist"} => KeysIn(db') \cap missed' = {}

(* One fabric, on the endpoint slots; every write succeeds. *)
Mirror ==
  /\ request'.slot \notin OtherSlots /\ "users" \notin request'.changed
  /\ unsaved' = {}
  /\ {request'.entry.creator, request'.fabric} \subseteq {only, None}

MCInit == Init /\ only \in Fabrics \cup {None} /\ (only = None => running)

MCNext ==
  /\ Next
  /\ IF only = None THEN Durable ELSE Mirror
  /\ UNCHANGED only

MCSpec == MCInit /\ [][MCNext]_<<vars, only>>

Symmetry ==
  Permutations(Keys) \cup Permutations(Fabrics) \cup Permutations(Places)
    \cup Permutations(Readers)
=============================================================================
