SPECIFICATION Spec
CONSTANT Addresses <- MCAddresses
INVARIANTS HitsAreReal KernelIsNotStepped RunsFree
PROPERTY WatchCatches
