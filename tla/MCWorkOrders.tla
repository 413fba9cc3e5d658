--------------------------- MODULE MCWorkOrders ----------------------------
(***************************************************************************)
(* Small instances of WorkOrders.                                          *)
(***************************************************************************)
EXTENDS WorkOrders, TLC

CONSTANTS x1, t1, f1, f2

\* Two versions of a template: they disagree on the failure mode of t1.
MCModeMaps ==
  {t1 :> f1 @@ NoTop :> f2, t1 :> f2 @@ NoTop :> f2}

MCOneMap == {t1 :> f1 @@ NoTop :> f2}
=============================================================================
