SPECIFICATION Spec
CONSTANTS
  Ids <- MCIds
  Protos <- MCProtos
  Files <- MCFiles
  NameOf <- MCNameOf
  NestedIn <- MCNestedIn
  EnumsOf <- MCEnumsOf
  FieldsOf <- MCFieldsOf
  Valid <- MCValid
  Package <- MCPackage
  Messages <- MCMessages
  Asked <- MCAsked
INVARIANTS
  BoundFieldsLead
  RegisterResolves
PROPERTY
  BindingsStay
