-------------------------- MODULE MCServiceBinding --------------------------
(* Two external pipes that show, in every combination, a complete monitor  *)
(* of each provider or one with a single thing wrong.                      *)
EXTENDS ServiceBinding, TLC

Service(class) == [external |-> TRUE, provider |-> class, epic |-> TRUE,
                      role |-> TRUE, unit_zero |-> TRUE, ui |-> TRUE]

Device(id) == [external |-> TRUE, branch |-> id, epic |-> TRUE,
                   role |-> TRUE, av |-> 1]

Transport(product, id) ==
  [active |-> TRUE, product |-> product, branch |-> id]

Plug(product, services, transports, devices) ==
  [display |-> TRUE, builtin |-> FALSE, product |-> product,
   service |-> services, transport |-> transports, device |-> devices]

Unplugged == [Plug("none", <<>>, <<>>, <<>>) EXCEPT !.display = FALSE]

PS190 == Plug("odyssey", <<Service("PS190")>>,
              <<Transport("odyssey", "pHDMIg")>>, <<Device("pHDMIg")>>)

Lg == Plug("lg", <<Service("DCPDP13")>>, <<>>, <<Device(None)>>)

MCContents ==
  {Unplugged, PS190, Lg,
   Plug("benq", <<Service("DCPDP_SERVICE")>>, <<>>, <<Device(None)>>),
   Plug("tv", <<Service("MCDP29XX")>>, <<>>, <<>>),
   Plug("tv", <<Service("UNKNOWN")>>, <<>>, <<>>),
   Plug("tv", <<>>, <<>>, <<>>),
   Plug("tv", <<Service(None)>>, <<>>, <<>>),
   [Lg EXCEPT !.builtin = TRUE],
   [Lg EXCEPT !.service = <<@[1], @[1]>>],
   [Lg EXCEPT !.device = <<@[1], @[1]>>],
   [Lg EXCEPT !.service[1].ui = FALSE],
   [PS190 EXCEPT !.transport[1].active = FALSE],
   [PS190 EXCEPT !.transport[1].branch = None],
   [PS190 EXCEPT !.device = <<@[1], @[1]>>],
   [PS190 EXCEPT !.device[1].role = FALSE],
   [PS190 EXCEPT !.service[1].unit_zero = FALSE],
   [PS190 EXCEPT !.service[1].epic = FALSE]}

\* Contents for the runs that need few.
MCTwins == {Unplugged, PS190}
MCPair == {PS190, Lg, [Lg EXCEPT !.service = <<>>]}

MCPipes == 1..2
MCRole == <<"DCPEXT0", "DCPEXT1">>
MCProfiled == <<"lg", "DCPEXT0">>
=============================================================================
