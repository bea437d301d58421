------------------------------ MODULE MCReload ----------------------------
(* Small captures to forge variants of, on the host of MCRemapCache.       *)
EXTENDS MCRemapCache, Host

Header(field, id) == [field |-> field, id |-> id, starts |-> TRUE]
Other(h) == [h EXCEPT !.starts = FALSE]
Asks(t, svc, ids) == [Ip(At(1, 2), At(1, 3)) EXCEPT !.svc = svc, !.ts = t, !.ids = ids]

McRounds == <<"plant", "big">>
McProfiles == <<2, 7>>
\* Three DNP3 addresses, more than there are values, of which one comes again and
\* one is after a tail that only looks like a header; a reply that lists two devices
\* and, between them, an item that is none; the first device, in a frame too long.
McOriginal ==
    <<Asks(1, "dnp3", <<Header("dnp3", 1), Header("dnp3", 2)>>),
      Asks(2, "dnp3", <<Header("dnp3", 2), Header("dnp3", 3), Other(Header("dnp3", 1)),
                        Header("dnp3", 4)>>),
      Asks(3, "enip", <<Header("vendor", 1), Header("serial", 1), Other(Header("serial", 3)),
                        Header("vendor", 3), Header("serial", 2)>>),
      [Asks(4, "enip", <<Header("vendor", 1), Header("serial", 1)>>) EXCEPT !.len = 4]>>
===========================================================================
