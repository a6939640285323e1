---------------------------- MODULE MCConfigForms ----------------------------
\* Instances of ConfigForms.
EXTENDS ConfigForms

AllFormKinds == Kinds
MostKinds == Kinds \ {"politenessConfig"}
MostSamples == {<<1, 3>>}

=============================================================================
