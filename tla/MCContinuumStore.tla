-------------------------- MODULE MCContinuumStore --------------------------
(***************************************************************************)
(* The two workspaces of data/workspaces.ts, with the candidates that they *)
(* name, in order; one seed record.                                        *)
(***************************************************************************)
EXTENDS ContinuumStore, TLC

CONSTANTS northwind, meridian, colorants, pacific, authorized, titan

MCCandidates == northwind :> <<colorants, pacific>>
                @@ meridian :> <<authorized, titan>>
MCSeeds == <<[run |-> 0]>>
=============================================================================
