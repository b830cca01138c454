---------------------------- MODULE MCPartnerFlow ---------------------------
(***************************************************************************)
(* An instance of the partner's flow for model checking.                   *)
(***************************************************************************)
EXTENDS PartnerFlow, TLC

MCIdentities ==
  {ByAddress} \cup {ByKey(p) : p \in Partners} \cup
  {BySession(x) : x \in 1 .. MaxTokens}

(* Addresses have the smallest limit.                                      *)
MCLimit == [id \in MCIdentities |-> IF id = ByAddress THEN 1 ELSE 2]

(* The slots of the server are interchangeable.                            *)
SlotSymmetry == Permutations(Slots)
=============================================================================
