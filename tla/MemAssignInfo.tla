---------------------------- MODULE MemAssignInfo ----------------------------
(***************************************************************************)
(* BCore::MemAssignInfo (src/tol/bbasic/cor.cpp): a note of the address and *)
(* page of an object that another component may delete, with which a time   *)
(* series (datingMai_) or the For built-in asks later whether the object    *)
(* still exists before it releases it.                                      *)
(*                                                                         *)
(* One note is modelled over the pool of BFSMem.  "same" is a history       *)
(* variable: the object the note was taken of has not been deleted since.   *)
(***************************************************************************)
EXTENDS BFSMem

CONSTANT NoAddress   \* address_ == NULL

ASSUME NoAddressAssumption == NoAddress \notin PageNumbers \X SlotNumbers

VARIABLES
  address,  \* address_, with pageNum_ = the page stamped in the object
  same      \* history: the noted object is still the one at that address

maiVars == <<address, same>>
allVars == <<vars, maiVars>>

MaiInit == Init /\ address = NoAddress /\ same = FALSE

(* SetAddress on a live object, as PutDating and the For built-in call it. *)
SetAddress(a) ==
  /\ address' = a
  /\ same' = TRUE
  /\ UNCHANGED vars

(* MemAssignInfo::IsAssigned: no note, or the bit of the noted slot. *)
MaiIsAssigned == address # NoAddress /\ IsAssigned(address, address[1])

(* BAtom::Destroy: an object that something refers to survives it. *)
Destroy(a) == Delete(a) \/ UNCHANGED vars

(* SafeDestroy: the object at the noted address is destroyed if the pool says *)
(* that it is assigned.                                                      *)
SafeDestroy ==
  /\ MaiIsAssigned
  /\ Destroy(address)
  /\ address' = NoAddress
  /\ same' = FALSE

(* The rest of the program goes on allocating and deleting. *)
OthersNew == New /\ UNCHANGED maiVars

OthersDelete(a) ==
  /\ Delete(a)
  /\ same' = (same /\ a # address)
  /\ UNCHANGED address

OthersEnd == SetTOLEnd /\ UNCHANGED maiVars

MaiNext ==
  \/ OthersNew \/ OthersEnd
  \/ \E a \in held : OthersDelete(a) \/ SetAddress(a)
  \/ SafeDestroy

MaiSpec == MaiInit /\ [][MaiNext]_allVars

-----------------------------------------------------------------------------

(* An object that nobody deleted is always seen as assigned, so no reference   *)
(* to it is forgotten (the case of tsr.cpp:66 that must release the dating).   *)
LiveIsSeenAssigned == same => MaiIsAssigned
=============================================================================
