---------------------------- MODULE MCLocalDataset ----------------------------
(* All files of up to two rows, and files of three rows with an exact repetition, a *)
(* contradiction, or excluded rows among them.                                      *)
EXTENDS LocalDataset

m(k, t, r) == [key |-> k, text |-> t, reason |-> r]
Short2 == {<<m("k1", "a", Missing)>>, <<m("k1", "a", "missing_text")>>,
           <<m("k1", "a", Missing), m("k2", "b", Missing)>>, <<m("k1", "a", Missing), m("k1", "a", Missing)>>}
Long3 == {<<m("k1", "a", Missing), m("k1", "b", Missing), m("k2", "a", Missing)>>,
          <<m("k1", "a", Missing), m("k1", "a", Missing), m("k2", "a", "invalid_overall")>>,
          <<m("k1", "b", "missing_text"), m("k1", "a", Missing), m("k1", "a", Missing)>>,
          <<m("k2", "b", Missing), m("k1", "a", Missing), m("k2", "a", Missing)>>}
Files == Short2 \union Long3
TwoMappings == {"m1", "m2"}
=============================================================================
