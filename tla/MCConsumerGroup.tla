-------------------------- MODULE MCConsumerGroup --------------------------
EXTENDS ConsumerGroup
=============================================================================
