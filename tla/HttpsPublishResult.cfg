CONSTANT
  LookupErrors = {"negative"}
SPECIFICATION Spec
INVARIANT
  PublishReportsFailure
