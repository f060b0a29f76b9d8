CONSTANT Builds <- MCBuilds
SPECIFICATION FairSpec
INVARIANT RestartComes
PROPERTY ReceiversComeBack
