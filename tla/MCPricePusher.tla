--------------------------- MODULE MCPricePusher ---------------------------
(***************************************************************************)
(* Instances of the price pusher for TLC.                                  *)
(***************************************************************************)
EXTENDS PricePusher

\* The price moves by a tenth at every publication.
MCQuote == [f \in Feed |-> [t \in 1..MaxTime |->
             [price |-> 90 + 10 * t, conf |-> 1]]]

MCConfig == [f \in Feed |->
              [timeDifference |-> 3, priceDeviation |-> 10,
               confidenceRatio |-> 20, customEarlyUpdate |-> FALSE,
               earlyTime |-> {}, earlyPrice |-> {}, earlyConf |-> {}]]
=============================================================================
