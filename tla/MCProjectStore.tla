--------------------------- MODULE MCProjectStore ---------------------------
(***************************************************************************)
(* Instances of ProjectStore.  At first there are two keys, a repository,  *)
(* an inventory that uses one key for SSH and the other as become key, an  *)
(* environment, a view, and a template with a schedule; the other ids are  *)
(* free.                                                                   *)
(***************************************************************************)
EXTENDS ProjectStore

Kind(o) ==
    CASE o \in {"k1", "k2", "k3"} -> "key"
      [] o \in {"r1", "r2"} -> "repository"
      [] o \in {"i1", "i2"} -> "inventory"
      [] o \in {"e1", "e2"} -> "environment"
      [] o \in {"t1", "t2"} -> "template"
      [] o \in {"s1", "s2"} -> "schedule"
      [] o \in {"v1", "v2"} -> "view"
      [] o \in {"x1", "x2"} -> "task"

MCKindOf == [o \in Obj |-> Kind(o)]

\* A row with the references set that are given as pairs.
Row(o, set) ==
    [val |-> 0,
     refs |-> [f \in Fields(Kind(o)) |->
                 IF \E p \in set : p[1] = f THEN (CHOOSE p \in set : p[1] = f)[2] ELSE "none"]]

MCInitRow ==
    [o \in Obj \cap {"k1", "k2", "r1", "i1", "e1", "t1", "s1", "v1"} |->
        CASE o = "r1" -> Row(o, {<<"ssh_key_id", "k1">>})
          [] o = "i1" -> Row(o, {<<"ssh_key_id", "k1">>, <<"become_key_id", "k2">>})
          [] o = "t1" -> Row(o, {<<"inventory_id", "i1">>, <<"repository_id", "r1">>})
          [] o = "s1" -> Row(o, {<<"template_id", "t1">>, <<"repository_id", "r1">>})
          [] OTHER -> Row(o, {})]

=============================================================================
