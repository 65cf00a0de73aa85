-------------------------- MODULE MCIngressReceipts --------------------------
(* The lifecycle receipts on a small instance.                             *)
EXTENDS IngressReceipts

CONSTANTS a1, a2, a3, e1, e2
=============================================================================
