------------------------------ MODULE MCMqServer ------------------------------
(* Two clients on two hosts, and what they send. *)
EXTENDS MqServer, TLC

CONSTANTS c1, c2, w1, w2, host1, host2

TwoHosts == c1 :> host1 @@ c2 :> host2

M(type) == [type |-> type, name |-> host1]
Subscribe(name) == [type |-> "0x4", name |-> name]
From(s1, s2, resets, threads) ==
    [send |-> c1 :> s1 @@ c2 :> s2, resets |-> resets, threads |-> threads]

(* Two threads, one message of each client, every type among them; two of  *)
(* one client.  The publisher is reset in the first.                      *)
Short == {From(<<M("0x1")>>, <<Subscribe(host1)>>, {c1}, {w1, w2}),
          From(<<Subscribe(host2)>>, <<M("0x16")>>, {}, {w1, w2}),
          From(<<M("0x8")>>, <<M("0x2")>>, {}, {w1, w2}),
          From(<<M("0x1"), M("0x1")>>, <<>>, {}, {w1, w2})}
(* One thread: publications and registrations, two of them of one client.  *)
Pairs == {From(<<M("0x1")>>, <<M(t), M(u)>>, {}, {w1}) :
             t \in {"0x1", "0x4"}, u \in Type \ {"0x16"}}
(* A publisher subscribes to the other and goes, and is published to.      *)
Away == {From(<<M("0x1")>>, <<M("0x1"), Subscribe(host1), M("0x8")>>, {}, {w1})}

ShortOrSequential == Short \cup Pairs \cup Away
=============================================================================
