---------------------------- MODULE NestLoopJoin ----------------------------
(***************************************************************************)
(* The nested loop join (join/nest_loop_join_builder.cpp and               *)
(* nest_loop_join_lookup.cpp).  The build operator collects all its rows;  *)
(* the lookup operator holds one batch of probe rows and the position of   *)
(* the next of them, and pairs probe rows one after the other with all     *)
(* build rows until a batch of output is large enough.  Without a filter   *)
(* the join is a cross join, whatever its type.                            *)
(***************************************************************************)
EXTENDS RowOrder

NewNestLoop == [inputs |-> <<>>, build |-> <<>>, built |-> FALSE, cur |-> <<>>, position |-> 0]

\* The filter of the instances: the probe key is less than the build key.
Selected(conf, p, b) == conf.filter => p.key # Null /\ b.key # Null /\ p.key < b.key

\* The build side of a pair for which there is none.
NoRow == [part |-> 0, key |-> Null, id |-> 0]

\* ProbeInnerJoin, ProbeCrossJoin or ProbeOuterJoin for one probe row.
PairsOf(conf, build, p) ==
  LET selected == SelectSeq(build, LAMBDA b : Selected(conf, p, b))
  IN  IF selected = <<>> /\ conf.join = "LEFT" /\ conf.filter THEN <<[probe |-> p, build |-> NoRow]>>
      ELSE [i \in DOMAIN selected |-> [probe |-> p, build |-> selected[i]]]

\* PrepareCurrentProbe: how many rows are enough.
ResultOutputRows(conf, self) ==
  LET builds == Len(self.build)
      probes == Len(self.cur) - self.position
      whole  == conf.maxRows \div builds
  IN  CASE builds = 0            -> conf.maxRows
        [] builds >= conf.maxRows -> builds
        [] OTHER                 -> (IF whole < probes THEN whole ELSE probes) * builds

\* Mutant: the probe row that fills a batch is probed again in the next one.
ProbeRowAgain(conf, self, probed, enough) ==
  IF Len(probed.batch) >= enough THEN probed
  ELSE LET batch == probed.batch \o PairsOf(conf, self.build, self.cur[probed.position + 1])
       IN  [position |-> probed.position + (IF Len(batch) < enough THEN 1 ELSE 0), batch |-> batch]
ProbeRow(conf, self, probed, enough) ==
  IF Len(probed.batch) >= enough THEN probed
  ELSE [position |-> probed.position + 1,
        batch |-> probed.batch \o PairsOf(conf, self.build, self.cur[probed.position + 1])]

Probed(conf, self) ==
  FoldLeft(LAMBDA probed, i : ProbeRow(conf, self, probed, ResultOutputRows(conf, self)),
           [position |-> self.position, batch |-> <<>>],
           [i \in 1 .. Len(self.cur) - self.position |-> i])

\* After its last row the batch is freed.
NestLoopChunk(self, probed, noMore) ==
  IF probed.position >= Len(self.cur) \/ probed.batch = <<>>
  THEN [self |-> [self EXCEPT !.cur = <<>>, !.position = 0],
        batch |-> probed.batch, finished |-> noMore]
  ELSE [self |-> [self EXCEPT !.position = probed.position], batch |-> probed.batch,
        finished |-> FALSE]

NestLoopGetOutput(conf, self, noMore) ==
  IF self.cur = <<>> THEN [self |-> self, batch |-> <<>>, finished |-> noMore]
  ELSE NestLoopChunk(self, Probed(conf, self), noMore)
=============================================================================
