---------------------------- MODULE MCTopicQueues ----------------------------
(* TopicQueues on a small instance: bounds of zero, bounds of one and two     *)
(* messages, sizes that fit, that fill the bound and that wrap a size_t.      *)
EXTENDS TopicQueues
==============================================================================
