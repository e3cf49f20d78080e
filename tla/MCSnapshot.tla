----------------------------- MODULE MCSnapshot -----------------------------
\* Two entities and two maps with different baselines; a client sees nothing,
\* one entity, or both.
EXTENDS Snapshot, TLC

MCEntity == {1, 2}
MCValue == {0, 1}
MCScene == {{<<1, 1>>}, {<<1, 0>>, <<2, 1>>}}
MCOtherScene == {{<<2, 0>>}}
MCBaseline == 0 :> (1 :> 0 @@ 2 :> 0) @@ 1 :> (1 :> 0 @@ 2 :> 1)
                @@ 2 :> (1 :> 1 @@ 2 :> 0)
MCMaxEntitiesStored == <<6, 4>>
=============================================================================
