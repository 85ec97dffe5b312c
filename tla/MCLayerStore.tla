------------------------------ MODULE MCLayerStore ------------------------------
EXTENDS LayerStore, TLC

CONSTANTS l1, l2, m1, m2

\* A saved image of one layer, and a pulled one that adds a layer to it.
MCLayersOf == (m1 :> {l1}) @@ (m2 :> {l1, l2})
OneLayer == m1 :> {l1}
=============================================================================
