-------------------------- MODULE MCConsumerGroup --------------------------
EXTENDS ConsumerGroup, TLC

\* Consumers are interchangeable in every safety property.
ConsumerSymmetry == Permutations(Consumers)
============================================================================
