----------------------------- MODULE MCProtocolo -----------------------------
(***************************************************************************)
(* The connections with short strings (an empty one and one of two         *)
(* letters, final zero included) and lists of none and two elements.  *)
(***************************************************************************)
EXTENDS Protocolo

LargosMC  == {1, 3}
CuentasMC == {0, 2}
=============================================================================
