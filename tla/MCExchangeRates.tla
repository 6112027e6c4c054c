---------------------------- MODULE MCExchangeRates ----------------------------
(***************************************************************************)
(* Constants of the runs of ExchangeRates: currencies other than the base  *)
(* are alike.                                                              *)
(***************************************************************************)
EXTENDS ExchangeRates, TLC

Alike == Permutations(Callers) \cup Permutations(Currencies \ {Base})
================================================================================
