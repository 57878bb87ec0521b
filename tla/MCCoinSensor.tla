---------------------------- MODULE MCCoinSensor ----------------------------
(***************************************************************************)
(* The delays of the source in ticks of 50 ms, each wait up to one tick    *)
(* late: 250 ms is the longest time between two samples and 1150 ms the    *)
(* longest after a coin.  A coin stays 300 to 400 ms before the sensor and *)
(* coins come 1150 ms apart, which is as fast as no coin is missed.        *)
(***************************************************************************)
EXTENDS CoinSensor
=============================================================================
