---------------------------- MODULE MCAppConfig ----------------------------
(***************************************************************************)
(* Instances of AppConfig for TLC: lines with one value of each kind, the  *)
(* malformed and the overlong, and an unknown key.                         *)
(***************************************************************************)
EXTENDS AppConfig, TLC

MCCut   == "a very long name" :> "a very long "
MCStrip == "a very long " :> "a very long"

Entry(k, t) == [key |-> k, text |-> t]

MCLine ==
    { Entry("product_name", Word("press")), Entry("product_name", Word("a very long name")),
      Entry("product_name", Empty),
      Entry("interface", Word("eth1")), Entry("interface", Quad(<<10, 0, 0, 1>>)),
      Entry("ip_addr", Quad(<<10, 0, 0, 1>>)), Entry("ip_addr", Quad(<<10, 0, 0, 300>>)),
      Entry("ip_addr", Quad(<<10, 0, 0, U32 + 1, 5>>)), Entry("ip_addr", Quad(<<10, 0, 0>>)),
      Entry("vendor_id", Number(U16 + 1)), Entry("rt_priority", Word("high")), Entry("isolate_cpu", Number(2)),
      Entry("lock_memory", Word("false")), Entry("lock_memory", [Number(1) EXCEPT !.tail = TRUE]),
      Entry("firewall", Word("on")) }

MCWords == Token \cup DOMAIN MCCut \cup DOMAIN MCStrip \cup {MCStrip[w] : w \in DOMAIN MCStrip}
                 \cup {"press", "eth1", "high", "on"}

MCEditText == {Word("press"), Word("a very long name"), Empty}
=============================================================================
