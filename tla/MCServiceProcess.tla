---------------------------- MODULE MCServiceProcess ---------------------------
(* A small instance of ServiceProcess. *)
EXTENDS ServiceProcess

Section(enabled, brokers, group, topics) ==
    [enabled |-> enabled, brokers |-> brokers, group |-> group, topics |-> topics]

(* A section that is complete, one that is switched off, and those that lack    *)
(* one thing each.                                                              *)
MCKafkaConfigs ==
    {Section(TRUE, "usable", TRUE, TRUE),
     Section(FALSE, "usable", TRUE, TRUE),
     Section(TRUE, "none", TRUE, TRUE),
     Section(TRUE, "unusable", TRUE, TRUE),
     Section(TRUE, "usable", FALSE, TRUE),
     Section(TRUE, "usable", TRUE, FALSE)}
================================================================================
