----------------------------- MODULE MCWebService ------------------------------
(* WebService on a small instance: two requests, which are not alike once the *)
(* first has come (EveryRequestEnds is a liveness property: no symmetry).     *)
EXTENDS WebService
================================================================================
