------------------------------ MODULE MCQueues ------------------------------
(* Pipelines for the run of Queues: chains of modules that keep the order,   *)
(* each of those that do not, and each of those that lose packets.           *)
EXTENDS Queues

SomePipelines ==
  {<<"lag", "throttle">>, <<"lag", "bandwidth">>, <<"lag", "jitter">>, <<"ood">>,
   <<"burstloss">>, <<"blackout">>}
==============================================================================
