------------------------------ MODULE LossTerms ------------------------------
(***************************************************************************)
(* What the terms of the losses read: graph_salad/losses.py, the tokenizer *)
(* loss of vq_model/losses.py, the latent and decoded terms of the         *)
(* denoiser, and the recovery of positions they are computed on.           *)
(*                                                                         *)
(* An entry is <<channels, joint, frame>>; a term is a record of the       *)
(* entries of the prediction and of the target it reads.  js are the valid *)
(* joints, fs the frames of the mask the caller passes, par the parents.   *)
(***************************************************************************)
EXTENDS Dependence, FiniteSetsExt

Entries(channels, ps) == {<<channels, p[1], p[2]>> : p \in ps}

(* _broadcast_pos_vel_mask.                                                *)
Elements(js, fs) == js \X fs

(* First frames of k-th differences: all their frames are valid.           *)
Starts(fs, k) == {f \in fs : f .. (f + k) \subseteq fs}

Windows(js, fs, k) == UNION {js \X (f .. (f + k)) : f \in Starts(fs, k)}

Both(es) == [pred |-> es, gt |-> es]

Group(channels, js, fs) == Both(Entries(channels, Elements(js, fs)))

-----------------------------------------------------------------------------
(* Recovery of positions from the 13 channels.                             *)

(* The root is integrated: its velocity of the frame before, turned by its *)
(* rotation of this frame, and so on from the first frame; its height is   *)
(* read directly.                                                          *)
RootPath(t) ==
  {<<"pos", 0, t>>} \cup {<<"vel", 0, s>> : s \in 0 .. (t - 1)} \cup {<<"rot", 0, s>> : s \in 1 .. t}

(* recover_world_positions_torch.                                          *)
World(p) ==
  RootPath(p[2]) \cup (IF p[1] = 0 THEN {} ELSE {<<"rot", 0, p[2]>>, <<"pos", p[1], p[2]>>})

Worlds(ps) == UNION {World(p) : p \in ps}

ChildrenOf(par, j) == {i \in DOMAIN par \ {0} : par[i] = j}

(* local_R_list: the rotation of a joint is stored at its children, and    *)
(* the last child written stays; a leaf has none.                          *)
LocalRotation(par, j) == IF ChildrenOf(par, j) = {} THEN {} ELSE {Max(ChildrenOf(par, j))}

(* Joints whose rotation channels are in the global rotation of a joint;   *)
(* and in its position.                                                    *)
GlobalRotation(par) ==
  LET g[j \in DOMAIN par] ==
        LocalRotation(par, j) \cup (IF par[j] < 0 THEN {} ELSE g[par[j]])
  IN  g

PositionRotations(par, j) == IF par[j] < 0 THEN {} ELSE GlobalRotation(par)[par[j]]

(* recover_rot6d_fk_positions_torch.                                       *)
Fk(par, p) ==
  RootPath(p[2]) \cup {<<"rot", i, p[2]>> : i \in PositionRotations(par, p[1])}

Fks(par, ps) == UNION {Fk(par, p) : p \in ps}

-----------------------------------------------------------------------------
(* Groups of terms.                                                        *)

(* compute_total_loss_13ch and compute_vq_loss_13ch, on the motion.        *)
Terms13(js, fs) ==
  [pos |-> Group("pos", js, fs), rot |-> Group("rot", js, fs),
   vel |-> Group("vel", js, fs), contact |-> Group("contact", js, fs)]

(* compute_world_geometry_terms.                                           *)
WorldTerms(js, fs) ==
  [world |-> Both(Worlds(Elements(js, fs))), traj |-> Both(UNION {RootPath(f) : f \in fs})]

(* compute_world_rot6d_fk_terms; fk compares with positions of the target  *)
(* that are recovered without the kinematics.                              *)
FkTerms(par, js, fs) ==
  LET all == Elements(js, fs)
  IN  [fk |-> [pred |-> Fks(par, all), gt |-> Worlds(all)],
       gt_fk_mismatch |-> [pred |-> {}, gt |-> Fks(par, all) \cup Worlds(all)]]

(* _masked_accel_l1 of the positions of the kinematics.                    *)
SmoothTerm(par, js, fs) ==
  LET near == Windows(js, fs, 2)
  IN  [fk_smooth |-> [pred |-> Fks(par, near), gt |-> Worlds(near)]]

(* Joints of the bones whose length is compared with the one at rest.      *)
BoneJoints(par, js) ==
  LET ends == {j \in js : par[j] >= 0 /\ par[j] \in js}
  IN  ends \cup {par[j] : j \in ends}

(* compute_total_loss: joints and velocities of the kinematic head.        *)
Terms6(par, js, fs) ==
  LET near == Windows(js, fs, 1)
      later == {p \in near : p[2] - 1 \in fs}
  IN  [pos |-> Group("pos", js, fs), vel |-> Group("vel", js, fs),
       vel_consistency |-> [pred |-> Entries("pos", near) \cup Entries("vel", later), gt |-> {}],
       bone |-> [pred |-> Entries("pos", Elements(BoneJoints(par, js), fs)),
                 gt |-> {}]]

(* Off by default: speed_mag and vel_normalized.                           *)
SpeedTerms(js, fs) ==
  [speed_mag |-> Both(Entries("pos", Windows(js, fs, 1))),
   vel_normalized |-> Group("vel", js, fs)]

(* masked_kl_gaussian.                                                     *)
KlTerm(tokens) == [kl |-> [pred |-> Entries("mu", tokens), gt |-> {}]]

(* decoded_speed_loss: joints that hardly move in the target are left out. *)
SpeedOver(js, fs, still) ==
  [speed |-> [pred |-> Worlds(Windows(js \ still, fs, 1)), gt |-> Worlds(Windows(js, fs, 1))]]

(* Terms that are reported and never weighted.                             *)
Diagnostics == {"gt_fk_mismatch"}

=============================================================================
