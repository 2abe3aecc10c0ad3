---------------------------- MODULE MCStRunner ----------------------------
(***************************************************************************)
(* StRunner with the cases of testplan/upstream.list, and with all short   *)
(* lists over one case of each kind.                                       *)
(***************************************************************************)
EXTENDS StRunner

Cs == {"sctp_rr", "sctp_stream", "sctphashtable", "ndatasched", "strreset", "prsctp"}
Bare == {"lksctptools", "procdumps", "sctpdiag", "peeloffbusy", "extoverflow"}

Upstream ==
    <<"lksctptools", "sctp_rr", "sctp_stream", "sctp_rr_on_ipsec",
      "sctp_stream_on_ipsec", "sctp_stream_on_sit", "procdumps", "sctpdiag",
      "gsomtuchange", "peeloffbusy", "extoverflow", "sctphashtable",
      "sctphashtable_on_team", "ndatasched", "strreset", "prsctp">>

\* "plain" has a do_test and nothing else; "lost" does not exist; "nowhere"
\* names a topology that does not.
Kinds == {"lksctptools", "sctp_rr", "gsomtuchange", "plain", "lost", "nowhere"}
Short == UNION {[1 .. n -> Kinds] : n \in 1 .. 3}

EveryPlan == {Upstream} \cup Short
Files == Listed \ {"lost"}
Topologies == {"netns_cs", "netns_ipsec_cs", "netns_sit_cs", "netns_crs", "netns_team_cs"}

TopoTable ==
    [c \in Listed |->
        CASE c \in Cs -> "netns_cs"
          [] c \in {"sctp_rr_on_ipsec", "sctp_stream_on_ipsec"} -> "netns_ipsec_cs"
          [] c = "sctp_stream_on_sit" -> "netns_sit_cs"
          [] c = "gsomtuchange" -> "netns_crs"
          [] c = "sctphashtable_on_team" -> "netns_team_cs"
          [] c = "nowhere" -> "netns_missing"
          [] OTHER -> NoTopo]

FunctionTable == [c \in Listed |-> IF c = "plain" THEN {"do_test"} ELSE Functions3]
DirTable == [c \in Listed |-> <<"testcase", c>>]
SourcesNext == {"sctp_rr", "sctp_stream", "sctp_rr_on_ipsec", "sctp_stream_on_ipsec",
                "sctp_stream_on_sit", "sctphashtable_on_team"}
\* lksctptools, and through rpt_test() every case that sources librpt.sh.
PushesItself == {"lksctptools"} \cup (SourcesNext \ {"sctphashtable_on_team"})
RootDir == << >>
===========================================================================
