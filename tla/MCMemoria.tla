------------------------------ MODULE MCMemoria ------------------------------
(***************************************************************************)
(* Three frames of two bytes and a TLB of two entries. The processes are 0 *)
(* and 2: with two keys the second one is out of their range and its       *)
(* fetches find the image of the first, as those of 256 find that of 0;    *)
(* those in between, with keys of their own, do not run.                   *)
(***************************************************************************)
EXTENDS Mmu

PidsMC          == {0, 2}
DireccionesMC   == {0, 1}
DestinosMC      == {1}
TamanosMC       == {3}
TamanosResizeMC == {2, 4}
=============================================================================
