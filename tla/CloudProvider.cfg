\* Every build: four providers, AWS with TLS and without, each value right or wrong.
SPECIFICATION Spec
CONSTANT Readings = 2
INVARIANTS CompleteAtOwnBroker OwnCloud OfferedOnce
